---- MODULE Spec2Model ----
(***************************************************************************)
(* envarfig-go: binding of environment variables to the fields of a record *)
(* (LoadEnv, parseEnvVar, the tag parser and the value coercer).           *)
(*                                                                         *)
(* Texts are sequences of one-character strings.  Field values are tagged  *)
(* records [kind, val]; errors are records [cause, kind, name, seen, text, *)
(* want].                                                                  *)
(***************************************************************************)
EXTENDS Integers, Sequences, FiniteSets, TLC

(***************************************************************************)
(* Shapes (reflect.Kind and the parts of reflect.Type the coercer reads),  *)
(* field values, and errors.  The kind field is named before every other   *)
(* field so that two records of different kinds compare as different.      *)
(***************************************************************************)
TString == [kind |-> "string"]

TBool == [kind |-> "bool"]

TAny == [kind |-> "interface"]

TStruct == [kind |-> "struct"]

TInt(b) == [kind |-> "int", bits |-> b]

TUint(b) == [kind |-> "uint", bits |-> b]

TFloat(b) == [kind |-> "float", bits |-> b]

TComplex(b) == [kind |-> "complex", bits |-> b]

TSlice(el) == [kind |-> "slice", elem |-> el]

TArray(n, el) == [kind |-> "array", elem |-> el, len |-> n]

TMap(k, el) == [kind |-> "map", elem |-> el, key |-> k]

Val(k, v) == [kind |-> k, val |-> v]

\* a slice or a map is nil until the coercer assigns it
Ref(k, v, n) == [kind |-> k, val |-> v, isNil |-> n]

\* an error value: kind is the message template, name the variable the
\* message names, text the rejected text, to the kind converted to (or the
\* unsupported kind), cause the strconv failure; NoErr is Go's nil error
Err(k, nm, tx, t, c, sn, wt) ==
  [kind |-> k, name |-> nm, text |-> tx, to |-> t, cause |-> c,
   seen |-> sn, want |-> wt]

NoErr == Err("nil", <<>>, <<>>, "", "", 0, 0)

errNilConfig == Err("errNilConfig", <<>>, <<>>, "", "", 0, 0)

errConfigNotPtrToStruct == Err("errConfigNotPtrToStruct", <<>>, <<>>, "", "", 0, 0)

errTagNotFound == Err("errTagNotFound", <<>>, <<>>, "", "", 0, 0)

errInvalidEnvPathArgs == Err("errInvalidEnvPathArgs", <<>>, <<>>, "", "", 0, 0)

\* an abnormal abort (a run-time panic) of the call
Panic(c) == Err("panic", <<>>, <<>>, "", c, 0, 0)

(***************************************************************************)
(* package strings                                                         *)
(***************************************************************************)
IsSpace(c) == c \in {" ", "\t", "\n", "\r"}

IsDigit(c) == \E i \in 1..10 : <<"0","1","2","3","4","5","6","7","8","9">>[i] = c

DigitVal(c) == (CHOOSE i \in 1..10 : <<"0","1","2","3","4","5","6","7","8","9">>[i] = c) - 1

LowerChar(c) ==
  IF \E i \in 1..26 : <<"A","B","C","D","E","F","G","H","I","J","K","L","M","N","O","P","Q","R","S","T","U","V","W","X","Y","Z">>[i] = c
  THEN <<"a","b","c","d","e","f","g","h","i","j","k","l","m","n","o","p","q","r","s","t","u","v","w","x","y","z">>[CHOOSE i \in 1..26 : <<"A","B","C","D","E","F","G","H","I","J","K","L","M","N","O","P","Q","R","S","T","U","V","W","X","Y","Z">>[i] = c]
  ELSE c

ToLower(s) == [i \in 1..Len(s) |-> LowerChar(s[i])]

Drop(s, n) == SubSeq(s, n + 1, Len(s))

HasPrefixAt(s, sub, i) ==
  /\ i + Len(sub) - 1 <= Len(s)
  /\ SubSeq(s, i, i + Len(sub) - 1) = sub

\* 1-based position of the first occurrence of sub in s, 0 when there is none
Index(s, sub) ==
  LET hits == {i \in 1..(Len(s) + 1) : HasPrefixAt(s, sub, i)}
  IN  IF hits = {} THEN 0 ELSE CHOOSE i \in hits : \A j \in hits : i <= j

Contains(s, sub) == Index(s, sub) # 0

RECURSIVE TrimLeft(_)
TrimLeft(s) ==
  IF s # <<>> /\ IsSpace(Head(s)) THEN TrimLeft(Tail(s)) ELSE s

RECURSIVE TrimRight(_)
TrimRight(s) ==
  IF s # <<>> /\ IsSpace(s[Len(s)]) THEN TrimRight(SubSeq(s, 1, Len(s) - 1)) ELSE s

TrimSpace(s) == TrimRight(TrimLeft(s))

\* strings.Split(s, sep): an empty sep explodes s into its characters
RECURSIVE Split(_, _)
Split(s, sep) ==
  IF sep = <<>>
  THEN [i \in 1..Len(s) |-> <<s[i]>>]
  ELSE LET i == Index(s, sep)
       IN  IF i = 0 THEN <<s>>
           ELSE <<SubSeq(s, 1, i - 1)>> \o Split(Drop(s, i + Len(sep) - 1), sep)

\* SplitN2 cutting at every separator, as strings.Split does
SplitN2_everySeparator(s, sep) == Split(s, sep)

\* strings.SplitN(s, sep, 2) for a non-empty sep
SplitN2(s, sep) ==
  LET i == Index(s, sep)
  IN  IF i = 0 THEN <<s>>
      ELSE <<SubSeq(s, 1, i - 1), Drop(s, i + Len(sep) - 1)>>

\* strings.ReplaceAll(s, c, "") for a one-character c
RECURSIVE RemoveAll(_, _)
RemoveAll(s, c) ==
  IF s = <<>> THEN <<>>
  ELSE IF Head(s) = c THEN RemoveAll(Tail(s), c)
       ELSE <<Head(s)>> \o RemoveAll(Tail(s), c)

(***************************************************************************)
(* package strconv.  A parse result is [ok, val, cause]; cause is "syntax" *)
(* or "range" when ok is FALSE.  Texts of the model are shorter than ten   *)
(* characters, so every decimal value fits the checker's integers and lies *)
(* inside the range of the 32- and 64-bit widths.                          *)
(***************************************************************************)
RECURSIVE Pow2(_)
Pow2(n) == IF n = 0 THEN 1 ELSE 2 * Pow2(n - 1)

RECURSIVE Pow10(_)
Pow10(n) == IF n = 0 THEN 1 ELSE 10 * Pow10(n - 1)

AllDigits(s) == \A i \in 1..Len(s) : IsDigit(s[i])

RECURSIVE DecVal(_)
DecVal(s) ==
  IF s = <<>> THEN 0
  ELSE 10 * DecVal(SubSeq(s, 1, Len(s) - 1)) + DigitVal(s[Len(s)])

ParseOk(v) == [ok |-> TRUE, val |-> v, cause |-> ""]

ParseFail(c) == [ok |-> FALSE, val |-> 0, cause |-> c]

\* strconv.ParseUint(s, 10, bits)
ParseUint(s, bits) ==
  IF s = <<>> \/ ~AllDigits(s) THEN ParseFail("syntax")
  ELSE IF bits < 32 /\ DecVal(s) > Pow2(bits) - 1 THEN ParseFail("range")
       ELSE ParseOk(DecVal(s))

\* strconv.ParseInt(s, 10, bits)
ParseInt(s, bits) ==
  IF s = <<>> THEN ParseFail("syntax")
  ELSE LET neg  == Head(s) = "-"
           body == IF Head(s) \in {"+", "-"} THEN Tail(s) ELSE s
       IN  IF body = <<>> \/ ~AllDigits(body) THEN ParseFail("syntax")
           ELSE LET un == DecVal(body)
                IN  IF bits < 32 /\ ~neg /\ un >= Pow2(bits - 1) THEN ParseFail("range")
                    ELSE IF bits < 32 /\ neg /\ un > Pow2(bits - 1) THEN ParseFail("range")
                         ELSE ParseOk(IF neg THEN 0 - un ELSE un)

\* ParseBool accepting every upper- and lower-case spelling
ParseBool_anyCase(s) ==
  IF ToLower(s) \in {<<"1">>, <<"t">>, <<"t","r","u","e">>}
  THEN [ok |-> TRUE, val |-> TRUE, cause |-> ""]
  ELSE IF ToLower(s) \in {<<"0">>, <<"f">>, <<"f","a","l","s","e">>}
       THEN [ok |-> TRUE, val |-> FALSE, cause |-> ""]
       ELSE [ok |-> FALSE, val |-> FALSE, cause |-> "syntax"]

\* strconv.ParseBool(s)
ParseBool(s) ==
  IF s \in {<<"1">>, <<"t">>, <<"T">>, <<"T","R","U","E">>,
            <<"t","r","u","e">>, <<"T","r","u","e">>}
  THEN [ok |-> TRUE, val |-> TRUE, cause |-> ""]
  ELSE IF s \in {<<"0">>, <<"f">>, <<"F">>, <<"F","A","L","S","E">>,
                 <<"f","a","l","s","e">>, <<"F","a","l","s","e">>}
       THEN [ok |-> TRUE, val |-> FALSE, cause |-> ""]
       ELSE [ok |-> FALSE, val |-> FALSE, cause |-> "syntax"]

(***************************************************************************)
(* Floating point.  A float is [cls, neg, m, e]: cls "num" stands for the  *)
(* float nearest to m * 10^e (m without trailing zeros), "inf" and "nan"   *)
(* for the special values; the two zeros, equal in Go, are one value.      *)
(* Hexadecimal mantissas are rejected, as text without a 'p' exponent is.  *)
(***************************************************************************)
FNum(neg, m, e) == [cls |-> "num", neg |-> neg, m |-> m, e |-> e]

FZero == FNum(FALSE, 0, 0)

FInf(neg) == [cls |-> "inf", neg |-> neg, m |-> 0, e |-> 0]

FNaN == [cls |-> "nan", neg |-> FALSE, m |-> 0, e |-> 0]

RECURSIVE FNorm(_, _, _)
FNorm(neg, m, e) ==
  IF m = 0 THEN FNum(FALSE, 0, 0)
  ELSE IF m % 10 = 0 THEN FNorm(neg, m \div 10, e + 1)
       ELSE FNum(neg, m, e)

RECURSIVE NumDigits(_)
NumDigits(m) == IF m < 10 THEN 1 ELSE 1 + NumDigits(m \div 10)

\* the first three significant digits of m, as a number in 100..999
Lead3(m) ==
  LET d == NumDigits(m)
  IN  IF d >= 3 THEN m \div Pow10(d - 3) ELSE m * Pow10(3 - d)

\* a finite decimal too large for the width: float32 ends at 3.40e38,
\* float64 at 1.79e308
FOverflows(f, bits) ==
  /\ f.cls = "num"
  /\ f.m # 0
  /\ LET ord == NumDigits(f.m) + f.e - 1
         top == IF bits = 32 THEN 38 ELSE 308
         led == IF bits = 32 THEN 340 ELSE 179
     IN  ord > top \/ (ord = top /\ Lead3(f.m) > led)

\* length of the longest run of digits at the head of s
RECURSIVE DigitRun(_)
DigitRun(s) ==
  IF s # <<>> /\ IsDigit(Head(s)) THEN 1 + DigitRun(Tail(s)) ELSE 0

\* common prefix of s (case-insensitive) and a lower-case word
RECURSIVE CommonPrefixLen(_, _)
CommonPrefixLen(s, w) ==
  IF s # <<>> /\ w # <<>> /\ LowerChar(Head(s)) = Head(w)
  THEN 1 + CommonPrefixLen(Tail(s), Tail(w))
  ELSE 0

\* strconv.special on the text after its sign: [ok, n, val]
specialBody(body, nsign, neg, ni, nn) ==
  IF ni = 3 \/ ni = 8 THEN [ok |-> TRUE, n |-> nsign + ni, val |-> FInf(neg)]
  ELSE IF 3 < ni /\ ni < 8 THEN [ok |-> TRUE, n |-> nsign + 3, val |-> FInf(neg)]
       ELSE IF nsign = 0 /\ nn = 3 THEN [ok |-> TRUE, n |-> 3, val |-> FNaN]
            ELSE [ok |-> FALSE, n |-> 0, val |-> FZero]

\* strconv.special: [ok, n, val]
Special(s) ==
  IF s # <<>> /\ Head(s) \in {"+", "-"}
  THEN specialBody(Tail(s), 1, Head(s) = "-", CommonPrefixLen(Tail(s), <<"i","n","f","i","n","i","t","y">>), 0)
  ELSE specialBody(s, 0, FALSE, CommonPrefixLen(s, <<"i","n","f","i","n","i","t","y">>), CommonPrefixLen(s, <<"n","a","n">>))

NoFloat == [ok |-> FALSE, n |-> 0, val |-> FZero]

\* the exponent of strconv.readFloat: edig is the text after 'e' and its sign
readExponent(neg, mant, fp, n, eneg, edig, elen) ==
  IF elen = 0 THEN NoFloat
  ELSE [ok  |-> TRUE,
        n   |-> n + elen,
        val |-> FNorm(neg, mant,
                      (IF eneg THEN 0 - DecVal(SubSeq(edig, 1, elen))
                       ELSE DecVal(SubSeq(edig, 1, elen))) - fp)]

\* the text after the mantissa: rest begins at the character after it and n
\* characters have been read
readAfterMantissa(neg, mant, fp, n, rest) ==
  IF rest # <<>> /\ LowerChar(Head(rest)) = "e"
  THEN IF Len(rest) >= 2 /\ rest[2] \in {"+", "-"}
       THEN readExponent(neg, mant, fp, n + 2, rest[2] = "-", Drop(rest, 2),
                         DigitRun(Drop(rest, 2)))
       ELSE readExponent(neg, mant, fp, n + 1, FALSE, Tail(rest), DigitRun(Tail(rest)))
  ELSE [ok |-> TRUE, n |-> n, val |-> FNorm(neg, mant, 0 - fp)]

\* the mantissa: ip digits, then, when dot holds, a point and fp digits
readMantissa(body, nsign, neg, ip, dot, fp) ==
  IF ip + fp = 0 THEN NoFloat
  ELSE IF dot
       THEN readAfterMantissa(neg,
                              DecVal(SubSeq(body, 1, ip) \o SubSeq(body, ip + 2, ip + 1 + fp)),
                              fp, nsign + ip + 1 + fp, Drop(body, ip + 1 + fp))
       ELSE readAfterMantissa(neg, DecVal(SubSeq(body, 1, ip)), 0, nsign + ip,
                              Drop(body, ip))

readPoint(body, nsign, neg, ip) ==
  IF Len(body) > ip /\ body[ip + 1] = "."
  THEN readMantissa(body, nsign, neg, ip, TRUE, DigitRun(Drop(body, ip + 1)))
  ELSE readMantissa(body, nsign, neg, ip, FALSE, 0)

readUnsigned(body, nsign, neg) ==
  IF Len(body) >= 2 /\ body[1] = "0" /\ LowerChar(body[2]) = "x" THEN NoFloat
  ELSE readPoint(body, nsign, neg, DigitRun(body))

\* strconv.readFloat on decimal text: [ok, n, val] for the longest prefix
ReadFloat(s) ==
  IF s # <<>> /\ Head(s) \in {"+", "-"}
  THEN readUnsigned(Tail(s), 1, Head(s) = "-")
  ELSE readUnsigned(s, 0, FALSE)

prefixResult(sp, rf, bits) ==
  IF sp.ok THEN [ok |-> TRUE, n |-> sp.n, val |-> sp.val, cause |-> ""]
  ELSE IF ~rf.ok THEN [ok |-> FALSE, n |-> 0, val |-> FZero, cause |-> "syntax"]
       ELSE IF FOverflows(rf.val, bits)
            THEN [ok |-> FALSE, n |-> rf.n, val |-> FInf(rf.val.neg), cause |-> "range"]
            ELSE [ok |-> TRUE, n |-> rf.n, val |-> rf.val, cause |-> ""]

\* strconv.parseFloatPrefix(s, bits): [ok, n, val, cause]
ParseFloatPrefix(s, bits) == prefixResult(Special(s), ReadFloat(s), bits)

wholeText(p, s) ==
  IF p.cause = "syntax" \/ p.n # Len(s)
  THEN [ok |-> FALSE, val |-> FZero, cause |-> "syntax"]
  ELSE [ok |-> p.ok, val |-> p.val, cause |-> p.cause]

\* strconv.ParseFloat(s, bits)
ParseFloat(s, bits) == wholeText(ParseFloatPrefix(s, bits), s)

\* the conversion float64 -> float32 done by reflect.Value.SetFloat
Narrow(f, bits) ==
  IF bits = 32 /\ FOverflows(f, 32) THEN FInf(f.neg) ELSE f

CZero == [re |-> FZero, im |-> FZero]

BadComplex == [ok |-> FALSE, val |-> CZero, cause |-> "syntax"]

\* the imaginary part im read from r2, which must end in "i"
complexImag(re, im, r2) ==
  IF im.cause = "syntax" \/ Drop(r2, im.n) # <<"i">> THEN BadComplex
  ELSE IF re.cause = "range" \/ im.cause = "range"
       THEN [ok |-> FALSE, val |-> [re |-> re.val, im |-> im.val], cause |-> "range"]
       ELSE [ok |-> TRUE, val |-> [re |-> re.val, im |-> im.val], cause |-> ""]

\* the text r1 that follows the real part re
complexRest(re, r1, size) ==
  IF re.cause = "syntax" THEN BadComplex
  ELSE IF r1 = <<>>
       THEN [ok |-> re.ok, val |-> [re |-> re.val, im |-> FZero], cause |-> re.cause]
       ELSE IF Head(r1) = "i"
            THEN IF Len(r1) = 1
                 THEN [ok |-> re.ok, val |-> [re |-> FZero, im |-> re.val],
                       cause |-> re.cause]
                 ELSE BadComplex
            ELSE IF Head(r1) = "+" /\ Len(r1) > 1 /\ r1[2] # "+"
                 THEN complexImag(re, ParseFloatPrefix(Tail(r1), size), Tail(r1))
                 ELSE IF Head(r1) \in {"+", "-"}
                      THEN complexImag(re, ParseFloatPrefix(r1, size), r1)
                      ELSE BadComplex

complexBare(bare, size) ==
  complexRest(ParseFloatPrefix(bare, size),
              Drop(bare, ParseFloatPrefix(bare, size).n), size)

\* strconv.ParseComplex(s, bits); the parts have half the width
ParseComplex(s, bits) ==
  IF Len(s) >= 2 /\ s[1] = "(" /\ s[Len(s)] = ")"
  THEN complexBare(SubSeq(s, 2, Len(s) - 1), bits \div 2)
  ELSE complexBare(s, bits \div 2)

(***************************************************************************)
(* parser.go: the tag parser and its property resolvers.                   *)
(***************************************************************************)
tagProperties(n, d, dl, r, h) ==
  [EnvName |-> n, DefaultValue |-> d, Delimiter |-> dl, Required |-> r, isString |-> h]

\* splitTagLoop taking a quote character after a backslash for a quote
RECURSIVE splitTagLoop_noEscape(_, _, _, _, _)
splitTagLoop_noEscape(tag, i, q, part, parts) ==
  IF i > Len(tag)
  THEN IF Len(part) > 0 THEN Append(parts, TrimSpace(part)) ELSE parts
  ELSE LET c     == tag[i]
           quote == c \in {"'", "\""}
           q2    == IF ~quote THEN q
                    ELSE IF q # "" THEN (IF c = q THEN "" ELSE q)
                         ELSE c
       IN  IF c = "," /\ q2 = ""
           THEN splitTagLoop_noEscape(tag, i + 1, q2, <<>>, Append(parts, TrimSpace(part)))
           ELSE splitTagLoop_noEscape(tag, i + 1, q2, Append(part, c), parts)

\* the scanner of splitTagRespectingQuotes from position i on; part is the
\* token under construction, q the open quote character ("" outside quotes)
RECURSIVE splitTagLoop(_, _, _, _, _)
splitTagLoop(tag, i, q, part, parts) ==
  IF i > Len(tag)
  THEN IF Len(part) > 0 THEN Append(parts, TrimSpace(part)) ELSE parts
  ELSE LET c     == tag[i]
           quote == c \in {"'", "\""} /\ (i = 1 \/ tag[i - 1] # "\\")
           q2    == IF ~quote THEN q
                    ELSE IF q # "" THEN (IF c = q THEN "" ELSE q)
                         ELSE c
       IN  IF c = "," /\ q2 = ""
           THEN splitTagLoop(tag, i + 1, q2, <<>>, Append(parts, TrimSpace(part)))
           ELSE splitTagLoop(tag, i + 1, q2, Append(part, c), parts)

splitTagRespectingQuotes(tag) == splitTagLoop(tag, 1, "", <<>>, <<>>)

\* the part of a token after its first '=' up to the next one, trimmed and
\* lower-cased: strings.Split(property, "=")[1]
valueAfterEq(property) == ToLower(TrimSpace(Split(property, <<"=">>)[2]))

\* one pair of equal outer quotes around v
isQuoted(v) ==
  /\ Len(v) >= 2
  /\ v[1] = v[Len(v)]
  /\ v[1] \in {"\"", "'"}

checkAndSetTagPropRequired(property, tp) ==
  IF ~Contains(ToLower(property), <<"r","e","q","u","i","r","e","d">>) THEN tp
  ELSE LET v == IF Contains(property, <<"=">>) THEN valueAfterEq(property)
                ELSE property
       IN  IF Contains(v, <<"t","r","u","e">>) THEN [tp EXCEPT !.Required = TRUE]
           ELSE IF Contains(v, <<"f","a","l","s","e">>) THEN [tp EXCEPT !.Required = FALSE]
                ELSE [tp EXCEPT !.Required = TRUE]

\* checkAndSetTagPropDefaultValue leaving the text inside the quotes untrimmed
checkAndSetTagPropDefaultValue_noInnerTrim(property, tp) ==
  IF ~Contains(ToLower(property), <<"d","e","f","a","u","l","t">>) THEN tp
  ELSE IF ~Contains(property, <<"=">>) THEN tp
       ELSE LET v == ToLower(TrimSpace(SplitN2(property, <<"=">>)[2]))
            IN  IF isQuoted(v)
                THEN [tp EXCEPT !.DefaultValue = SubSeq(v, 2, Len(v) - 1)]
                ELSE [tp EXCEPT !.DefaultValue = v]

checkAndSetTagPropDefaultValue(property, tp) ==
  IF ~Contains(ToLower(property), <<"d","e","f","a","u","l","t">>) THEN tp
  ELSE IF ~Contains(property, <<"=">>) THEN tp
       ELSE LET v == ToLower(TrimSpace(SplitN2(property, <<"=">>)[2]))
            IN  IF isQuoted(v)
                THEN [tp EXCEPT !.DefaultValue = TrimSpace(SubSeq(v, 2, Len(v) - 1))]
                ELSE [tp EXCEPT !.DefaultValue = v]

\* checkAndSetTagPropDelimiterForSliceOrArray taking a value without quotes
checkAndSetTagPropDelimiterForSliceOrArray_unquoted(property, tp) ==
  IF ~Contains(ToLower(property), <<"d","e","l","i","m","i","t","e","r">>) THEN tp
  ELSE IF ~Contains(property, <<"=">>) THEN tp
       ELSE LET v == ToLower(TrimSpace(SplitN2(property, <<"=">>)[2]))
            IN  IF isQuoted(v)
                THEN [tp EXCEPT !.Delimiter = TrimSpace(SubSeq(v, 2, Len(v) - 1))]
                ELSE [tp EXCEPT !.Delimiter = v]

checkAndSetTagPropDelimiterForSliceOrArray(property, tp) ==
  IF ~Contains(ToLower(property), <<"d","e","l","i","m","i","t","e","r">>) THEN tp
  ELSE IF ~Contains(property, <<"=">>) THEN tp
       ELSE LET v == ToLower(TrimSpace(SplitN2(property, <<"=">>)[2]))
            IN  IF isQuoted(v)
                THEN [tp EXCEPT !.Delimiter = TrimSpace(SubSeq(v, 2, Len(v) - 1))]
                ELSE tp

cehckAndSetIsStringForByteOrRuneArray(property, tp) ==
  IF ~Contains(ToLower(property), <<"i","s","s","t","r","i","n","g">>) THEN tp
  ELSE LET v == IF Contains(property, <<"=">>) THEN valueAfterEq(property)
                ELSE property
       IN  IF Contains(v, <<"t","r","u","e">>) THEN [tp EXCEPT !.isString = TRUE]
           ELSE IF Contains(v, <<"f","a","l","s","e">>) THEN tp
                ELSE [tp EXCEPT !.isString = TRUE]

RECURSIVE applyProperties(_, _, _)
applyProperties(properties, i, tp) ==
  IF i > Len(properties) THEN tp
  ELSE applyProperties(properties, i + 1,
         cehckAndSetIsStringForByteOrRuneArray(properties[i],
           checkAndSetTagPropDelimiterForSliceOrArray(properties[i],
             checkAndSetTagPropDefaultValue(properties[i],
               checkAndSetTagPropRequired(properties[i], tp)))))

parseTagAndTagValues(tag) ==
  LET properties == splitTagRespectingQuotes(tag)
  IN  applyProperties(properties, 2,
        tagProperties(properties[1], <<>>, <<",">>, FALSE, FALSE))

(***************************************************************************)
(* parser.go: the value coercer.  Every operator returns [err, val]: the   *)
(* error of the call and the value the field holds when the call returns.  *)
(***************************************************************************)
RECURSIVE Zero(_)
Zero(t) ==
  CASE t.kind = "string"    -> Val("string", <<>>)
    [] t.kind = "int"       -> Val("int", 0)
    [] t.kind = "uint"      -> Val("uint", 0)
    [] t.kind = "float"     -> Val("float", FZero)
    [] t.kind = "complex"   -> Val("complex", CZero)
    [] t.kind = "bool"      -> Val("bool", FALSE)
    [] t.kind = "interface" -> Ref("interface", <<>>, TRUE)
    [] t.kind = "slice"     -> Ref("slice", <<>>, TRUE)
    [] t.kind = "map"       -> Ref("map", <<>>, TRUE)
    [] t.kind = "array"     -> Val("array", [i \in 1..t.len |-> Zero(t.elem)])
    [] OTHER                -> Val(t.kind, <<>>)

\* reflect.Value.SetInt / SetUint store the value cut to the field's width
WrapInt(x, bits) ==
  IF bits >= 32 THEN x
  ELSE ((x + Pow2(bits - 1)) % Pow2(bits)) - Pow2(bits - 1)

WrapUint(x, bits) == IF bits >= 32 THEN x ELSE x % Pow2(bits)

\* the code point of a character: ASCII ("grave" stands for the backquote)
Code(c) ==
  LET Printable ==
       <<" ","!","\"","#","$","%","&","'","(",")","*","+",",","-",".","/",
       "0","1","2","3","4","5","6","7","8","9",":",";","<","=",">","?",
       "@","A","B","C","D","E","F","G","H","I","J","K","L","M","N","O",
       "P","Q","R","S","T","U","V","W","X","Y","Z","[","\\","]","^","_",
       "grave","a","b","c","d","e","f","g","h","i","j","k","l","m","n","o",
       "p","q","r","s","t","u","v","w","x","y","z","{","|","}","~">>
  IN  CASE c = "\t" -> 9
        [] c = "\n" -> 10
        [] c = "\r" -> 13
        [] OTHER    -> 31 + (CHOOSE i \in 1..Len(Printable) : Printable[i] = c)

\* one token parsed at the width of its own shape, as the element, key and
\* value switches do: [ok, val, cause]; an unsupported kind has cause
\* "unsupported"
parseToken(t, s) ==
  CASE t.kind = "string" -> [ok |-> TRUE, val |-> Val("string", s), cause |-> ""]
    [] t.kind = "int" ->
         LET r == ParseInt(s, t.bits)
         IN  [ok |-> r.ok, val |-> Val("int", r.val), cause |-> r.cause]
    [] t.kind = "uint" ->
         LET r == ParseUint(s, t.bits)
         IN  [ok |-> r.ok, val |-> Val("uint", r.val), cause |-> r.cause]
    [] t.kind = "float" ->
         LET r == ParseFloat(s, t.bits)
         IN  [ok |-> r.ok, val |-> Val("float", r.val), cause |-> r.cause]
    [] t.kind = "complex" ->
         LET r == ParseComplex(s, t.bits)
         IN  [ok |-> r.ok, val |-> Val("complex", r.val), cause |-> r.cause]
    [] t.kind = "bool" ->
         LET r == ParseBool(s)
         IN  [ok |-> r.ok, val |-> Val("bool", r.val), cause |-> r.cause]
    [] t.kind = "interface" ->
         [ok |-> TRUE, val |-> Ref("interface", s, FALSE), cause |-> ""]
    [] OTHER -> [ok |-> FALSE, val |-> Val(t.kind, <<>>), cause |-> "unsupported"]

\* the string hint applies to a sequence of runes (int32) or of bytes (uint8)
hintApplies(t, tp) ==
  /\ tp.isString
  /\ \/ t.elem.kind = "int" /\ t.elem.bits = 32
     \/ t.elem.kind = "uint" /\ t.elem.bits = 8

\* the array as it stands after the elements newValue have been written in
\* place; a slice is assigned only at the end
keptValue(old, t, newValue) ==
  IF t.kind = "array"
  THEN Val("array", newValue \o SubSeq(old.val, Len(newValue) + 1, Len(old.val)))
  ELSE old

RECURSIVE setElements(_, _, _, _, _, _, _)
\* the end of one turn of the loop: r is the parsed token tok
setElement(old, t, envName, envValue, tp, toks, newValue, tok, r) ==
  IF r.ok
  THEN setElements(old, t, envName, envValue, tp, toks, Append(newValue, r.val))
  ELSE IF r.cause = "unsupported"
       THEN [err |-> Err("unsupported slice/array element type", <<>>, <<>>,
                         t.elem.kind, "", 0, 0),
             val |-> keptValue(old, t, newValue)]
       ELSE [err |-> Err("conversion failed", envName, tok, t.elem.kind, r.cause, 0, 0),
             val |-> keptValue(old, t, newValue)]

\* the loop of setEnvVarSliceOrArrayValues from the token after those of
\* newValue on; newValue is the sequence of elements written so far
setElements(old, t, envName, envValue, tp, toks, newValue) ==
  IF Len(newValue) + 1 > Len(toks)
  THEN [err |-> NoErr,
        val |-> IF t.kind = "array" THEN Val("array", newValue)
                ELSE Ref("slice", newValue, FALSE)]
  ELSE IF t.elem.kind \in {"int", "uint"} /\ hintApplies(t, tp)
       THEN IF t.kind = "slice"
            THEN [err |-> NoErr, val |-> Ref("slice",
                             [i \in 1..Len(envValue) |->
                                Val(t.elem.kind, Code(envValue[i]))],
                             FALSE)]
            ELSE [err |-> Panic("reflect"), val |-> keptValue(old, t, newValue)]
       ELSE setElement(old, t, envName, envValue, tp, toks, newValue,
                       TrimSpace(toks[Len(newValue) + 1]),
                       parseToken(t.elem, TrimSpace(toks[Len(newValue) + 1])))

\* checkArrayLength refusing only a text with more tokens than elements
checkArrayLength_tooManyOnly(old, t, envName, envValue, tp, envValSliceOrArray) ==
  IF t.kind = "array" /\ Len(envValSliceOrArray) > t.len
  THEN [err |-> Err("array length", envName, <<>>, "", "",
                    Len(envValSliceOrArray), t.len),
        val |-> old]
  ELSE setElements(old, t, envName, envValue, tp, envValSliceOrArray, <<>>)

checkArrayLength(old, t, envName, envValue, tp, envValSliceOrArray) ==
  IF t.kind = "array" /\ Len(envValSliceOrArray) # t.len
  THEN [err |-> Err("array length", envName, <<>>, "", "",
                    Len(envValSliceOrArray), t.len),
        val |-> old]
  ELSE setElements(old, t, envName, envValue, tp, envValSliceOrArray, <<>>)

setEnvVarSliceOrArrayValues(old, t, envName, envValue, tp) ==
  checkArrayLength(old, t, envName, envValue, tp, Split(envValue, tp.Delimiter))

\* reflect.Value.SetMapIndex on a map kept as a sequence of <<key, value>>
SetMapIndex(m, k, v) ==
  IF /\ ~(k.kind = "float" /\ k.val.cls = "nan")
     /\ ~(k.kind = "complex" /\ (k.val.re.cls = "nan" \/ k.val.im.cls = "nan"))
     /\ \E j \in 1..Len(m) : m[j][1] = k
  THEN [j \in 1..Len(m) |-> IF m[j][1] = k THEN <<k, v>> ELSE m[j]]
  ELSE Append(m, <<k, v>>)

RECURSIVE setEntries(_, _, _, _, _, _)
\* the value switch of one entry: key is the parsed key, v the parsed value
setEntryValue(old, t, envName, mapValues, i, newMap, key, text, v) ==
  IF v.ok
  THEN setEntries(old, t, envName, mapValues, i + 1, SetMapIndex(newMap, key, v.val))
  ELSE IF v.cause = "unsupported"
       THEN [err |-> Err("unsupported map value type", <<>>, <<>>, t.elem.kind, "", 0, 0),
             val |-> old]
       ELSE [err |-> Err("map value conversion failed", <<>>, text, t.elem.kind,
                         v.cause, 0, 0),
             val |-> old]

\* the key switch of one entry: k is the parsed key
setEntryKey(old, t, envName, mapValues, i, newMap, keyValue, text, k) ==
  IF k.ok
  THEN setEntryValue(old, t, envName, mapValues, i, newMap, k.val,
                     TrimSpace(keyValue[2]),
                     parseToken(t.elem, TrimSpace(keyValue[2])))
  ELSE IF k.cause = "unsupported"
       THEN [err |-> Err("unsupported map key type", <<>>, <<>>, t.key.kind, "", 0, 0),
             val |-> old]
       ELSE [err |-> Err("map key conversion failed", <<>>, text, t.key.kind,
                         k.cause, 0, 0),
             val |-> old]

\* one entry split at its first ':'
setEntry(old, t, envName, mapValues, i, newMap, keyValue) ==
  IF Len(keyValue) # 2
  THEN [err |-> Err("invalid map entry", envName, mapValues[i], "", "", 0, 0),
        val |-> old]
  ELSE setEntryKey(old, t, envName, mapValues, i, newMap, keyValue,
                   TrimSpace(keyValue[1]),
                   parseToken(t.key, TrimSpace(keyValue[1])))

\* the loop of setEnvVarMapValues from entry i on
setEntries(old, t, envName, mapValues, i, newMap) ==
  IF i > Len(mapValues) THEN [err |-> NoErr, val |-> Ref("map", newMap, FALSE)]
  ELSE setEntry(old, t, envName, mapValues, i, newMap, SplitN2(mapValues[i], <<":">>))

\* the braces removed from the first entry
stripOpening(mapValues) ==
  [mapValues EXCEPT ![1] = RemoveAll(mapValues[1], "{")]

\* the entries after the braces are removed from the first and the last one
stripBraces(mapValues) ==
  [stripOpening(mapValues) EXCEPT
     ![Len(mapValues)] = RemoveAll(stripOpening(mapValues)[Len(mapValues)], "}")]

setMapEntries(old, t, envName, mapValues) ==
  IF Len(mapValues) = 0
  THEN [err |-> Panic("index out of range"), val |-> old]
  ELSE setEntries(old, t, envName, stripBraces(mapValues), 1, <<>>)

setEnvVarMapValues(old, t, envName, envValue, tp) ==
  setMapEntries(old, t, envName, Split(envValue, tp.Delimiter))

\* the end of a scalar case of setEnvVarValues: r is the parsed text, val the
\* value stored when it parsed
setScalar(old, tp, text, to, r, val) ==
  IF r.ok THEN [err |-> NoErr, val |-> val]
  ELSE [err |-> Err("conversion failed", tp.EnvName, text, to, r.cause, 0, 0),
        val |-> old]

\* the complex case of setEnvVarValues: r is the text without spaces parsed
setComplex(old, t, tp, text, r) ==
  setScalar(old, tp, text, "complex", r,
            Val("complex", [re |-> Narrow(r.val.re, t.bits \div 2),
                            im |-> Narrow(r.val.im, t.bits \div 2)]))

setEnvVarValues(old, t, tp, envValue) ==
  CASE t.kind = "string" -> [err |-> NoErr, val |-> Val("string", envValue)]
    [] t.kind = "int" ->
         setScalar(old, tp, envValue, "int", ParseInt(envValue, 64),
                   Val("int", WrapInt(ParseInt(envValue, 64).val, t.bits)))
    [] t.kind = "uint" ->
         setScalar(old, tp, envValue, "uint", ParseUint(envValue, 64),
                   Val("uint", WrapUint(ParseUint(envValue, 64).val, t.bits)))
    [] t.kind = "float" ->
         setScalar(old, tp, envValue, "float", ParseFloat(envValue, 64),
                   Val("float", Narrow(ParseFloat(envValue, 64).val, t.bits)))
    [] t.kind = "complex" ->
         setComplex(old, t, tp, RemoveAll(envValue, " "),
                    ParseComplex(RemoveAll(envValue, " "), 128))
    [] t.kind \in {"slice", "array"} ->
         setEnvVarSliceOrArrayValues(old, t, tp.EnvName, envValue, tp)
    [] t.kind = "map" -> setEnvVarMapValues(old, t, tp.EnvName, envValue, tp)
    [] t.kind = "bool" ->
         setScalar(old, tp, envValue, "bool", ParseBool(envValue),
                   Val("bool", ParseBool(envValue).val))
    [] t.kind = "interface" -> [err |-> NoErr, val |-> Ref("interface", envValue, FALSE)]
    [] OTHER -> [err |-> Err("unsupported field type", <<>>, <<>>, t.kind, "", 0, 0),
                 val |-> old]

(***************************************************************************)
(* parser.go: the binder.  A record type is [kind, name, fields]; a field  *)
(* is [tag, type], tag being the text of its env struct tag (empty when    *)
(* the field has none).  A record is the sequence of its field values.     *)
(***************************************************************************)
Field(tg, t) == [tag |-> tg, type |-> t]

RecordType(nm, fs) == [kind |-> "struct", name |-> nm, fields |-> fs]

\* a type that is not a struct, such as *int
OtherType(nm) == [kind |-> "ptr", name |-> nm, fields |-> <<>>]

ZeroRecord(T) == [i \in 1..Len(T.fields) |-> Zero(T.fields[i].type)]

\* os.LookupEnv on an environment [names -> [exist, value]]
LookupEnv(e, name) ==
  IF name \in DOMAIN e THEN e[name] ELSE [exist |-> FALSE, value |-> <<>>]

\* resolveEnvValue taking an empty value for a missing variable
resolveEnvValue_emptyIsAbsent(tagProp, e) ==
  LET look == LookupEnv(e, tagProp.EnvName)
  IN  IF look.exist /\ look.value # <<>> THEN [err |-> NoErr, envValue |-> look.value]
      ELSE IF tagProp.Required /\ tagProp.DefaultValue = <<>>
           THEN [err |-> Err("required environment variable not found",
                             tagProp.EnvName, <<>>, "", "", 0, 0),
                 envValue |-> <<>>]
           ELSE [err |-> NoErr, envValue |-> tagProp.DefaultValue]

\* lines 71-79 of parseEnvVar: the text given to the coercer, or the error
\* of a required variable that is missing
resolveEnvValue(tagProp, e) ==
  LET look == LookupEnv(e, tagProp.EnvName)
  IN  IF look.exist THEN [err |-> NoErr, envValue |-> look.value]
      ELSE IF tagProp.Required /\ tagProp.DefaultValue = <<>>
           THEN [err |-> Err("required environment variable not found",
                             tagProp.EnvName, <<>>, "", "", 0, 0),
                 envValue |-> <<>>]
           ELSE [err |-> NoErr, envValue |-> tagProp.DefaultValue]

\* parseFields going on to the next field after a field has failed
RECURSIVE parseFields_noStop(_, _, _, _, _)
parseFields_noStop(fields, i, rec, e, handed) ==
  IF i > Len(fields) THEN [err |-> NoErr, rec |-> rec, handed |-> handed]
  ELSE IF fields[i].tag = <<>>
       THEN [err |-> errTagNotFound, rec |-> rec, handed |-> handed]
       ELSE LET tagProp == parseTagAndTagValues(fields[i].tag)
                res     == resolveEnvValue(tagProp, e)
                r       == setEnvVarValues(rec[i], fields[i].type, tagProp, res.envValue)
                rest    == parseFields_noStop(fields, i + 1, [rec EXCEPT ![i] = r.val], e,
                                              Append(handed, res.envValue))
            IN  IF res.err # NoErr
                THEN [err |-> res.err, rec |-> rec, handed |-> handed]
                ELSE IF r.err # NoErr
                     THEN [err |-> r.err, rec |-> rest.rec, handed |-> rest.handed]
                     ELSE rest

\* parseFields passing over a field that has no tag
RECURSIVE parseFields_skipUntagged(_, _, _, _, _)
parseFields_skipUntagged(fields, i, rec, e, handed) ==
  IF i > Len(fields) THEN [err |-> NoErr, rec |-> rec, handed |-> handed]
  ELSE IF fields[i].tag = <<>>
       THEN parseFields_skipUntagged(fields, i + 1, rec, e, handed)
       ELSE LET tagProp == parseTagAndTagValues(fields[i].tag)
                res     == resolveEnvValue(tagProp, e)
                r       == setEnvVarValues(rec[i], fields[i].type, tagProp, res.envValue)
            IN  IF res.err # NoErr
                THEN [err |-> res.err, rec |-> rec, handed |-> handed]
                ELSE IF r.err # NoErr
                     THEN [err |-> r.err, rec |-> [rec EXCEPT ![i] = r.val],
                           handed |-> Append(handed, res.envValue)]
                     ELSE parseFields_skipUntagged(fields, i + 1,
                                                   [rec EXCEPT ![i] = r.val], e,
                                                   Append(handed, res.envValue))

RECURSIVE parseFields(_, _, _, _, _)
\* lines 82-84 of parseEnvVar: r is what setEnvVarValues returned for field i
setField(fields, i, rec, e, handed, envValue, r) ==
  IF r.err # NoErr
  THEN [err |-> r.err, rec |-> [rec EXCEPT ![i] = r.val],
        handed |-> Append(handed, envValue)]
  ELSE parseFields(fields, i + 1, [rec EXCEPT ![i] = r.val], e,
                   Append(handed, envValue))

\* lines 71-81 of parseEnvVar: res is the text chosen for field i
bindField(fields, i, rec, e, handed, tagProp, res) ==
  IF res.err # NoErr
  THEN [err |-> res.err, rec |-> rec, handed |-> handed]
  ELSE setField(fields, i, rec, e, handed, res.envValue,
                setEnvVarValues(rec[i], fields[i].type, tagProp, res.envValue))

\* the loop of parseEnvVar from field i on: [err, rec, handed], handed being
\* the texts given to setEnvVarValues so far
parseFields(fields, i, rec, e, handed) ==
  IF i > Len(fields) THEN [err |-> NoErr, rec |-> rec, handed |-> handed]
  ELSE IF fields[i].tag = <<>>
       THEN [err |-> errTagNotFound, rec |-> rec, handed |-> handed]
       ELSE bindField(fields, i, rec, e, handed, parseTagAndTagValues(fields[i].tag),
                      resolveEnvValue(parseTagAndTagValues(fields[i].tag), e))

parseEnvVar(T, rec, e) ==
  IF T.kind # "struct"
  THEN [err |-> errConfigNotPtrToStruct, rec |-> rec, handed |-> <<>>]
  ELSE parseFields(T.fields, 1, rec, e, <<>>)

(***************************************************************************)
(* State.  env is the process environment, dotenv the env files on disk,   *)
(* cachedConfigs the package-level cache of LoadEnv, in the arguments of   *)
(* the operation under way or last run, out its result; firstLoaded        *)
(* remembers, per record type, the record the first successful LoadEnv     *)
(* call returned.                                                          *)
(***************************************************************************)
VARIABLES env, dotenv, cachedConfigs, firstLoaded, in, out

vars == <<env, dotenv, cachedConfigs, firstLoaded, in, out>>

Absent == [exist |-> FALSE, value |-> <<>>]

Present(v) == [exist |-> TRUE, value |-> v]

NoEntry == [ok |-> FALSE, rec |-> <<>>]

Entry(r) == [ok |-> TRUE, rec |-> r]

Idle == [op |-> "none", err |-> NoErr, rec |-> <<>>, handed |-> <<>>]

(***************************************************************************)
(* SpecBind: parseEnvVar applied to one record under one environment.      *)
(***************************************************************************)
nameA == <<"A">>

nameB == <<"B">>

nameC == <<"C">>

\* name,tok1,tok2 with the empty tokens left out
JoinTag(name, t1, t2) ==
  name \o (IF t1 = <<>> THEN <<>> ELSE <<",">> \o t1)
       \o (IF t2 = <<>> THEN <<>> ELSE <<",">> \o t2)

ReqTokens == {<<>>, <<"r","e","q","u","i","r","e","d">>, <<"r","e","q","u","i","r","e","d","=","t","r","u","e">>, <<"r","e","q","u","i","r","e","d","=","f","a","l","s","e">>}

DefTokens ==
  {<<>>, <<"d","e","f","a","u","l","t","=","x">>, <<"d","e","f","a","u","l","t","=","'","x","'">>, <<"d","e","f","a","u","l","t","=","\"","x","\"">>, <<"d","e","f","a","u","l","t","=">>,
   <<"d","e","f","a","u","l","t","=","'","'">>, <<"d","e","f","a","u","l","t","=","'"," "," ","'">>, <<"d","e","f","a","u","l","t","=","\"","\"">>, <<"d","e","f","a","u","l","t","=","1">>, <<"d","e","f","a","u","l","t","=","'","1",",","2","'">>}

OneFieldTags ==
  {JoinTag(nameA, r, d) : r \in ReqTokens, d \in DefTokens}
    \cup {JoinTag(nameA, d, r) : r \in ReqTokens, d \in DefTokens}

SupportedShapes ==
  {TString, TInt(64), TInt(8), TUint(64), TFloat(64), TBool, TComplex(128), TAny,
   TSlice(TString), TSlice(TInt(64)), TArray(2, TString), TArray(1, TInt(64)),
   TMap(TString, TString)}

OneFieldTypes ==
  {RecordType("One", <<Field(tg, t)>>) : tg \in OneFieldTags, t \in SupportedShapes}

BindTexts == {<<>>, <<"x">>, <<"1">>, <<"1",",","2">>}

OneFieldEnvs ==
  {(nameA :> a) @@ (nameB :> Absent) @@ (nameC :> Absent) :
     a \in {Absent} \cup {Present(v) : v \in BindTexts}}

ManyFieldTypes ==
  {RecordType("M1", <<Field(<<"A">>, TString), Field(<<"B">>, TInt(8)),
                      Field(<<"C",",","r","e","q","u","i","r","e","d">>, TString)>>),
   RecordType("M2", <<Field(<<"A",",","d","e","f","a","u","l","t","=","1">>, TInt(64)), Field(<<"B">>, TArray(2, TInt(64))),
                      Field(<<"C">>, TBool)>>),
   RecordType("N1", <<Field(<<"A">>, TInt(64)), Field(<<>>, TString),
                      Field(<<"C">>, TString)>>),
   RecordType("N2", <<Field(<<>>, TString), Field(<<"B">>, TInt(64)),
                      Field(<<"C">>, TString)>>),
   RecordType("N3", <<Field(<<"A",",","r","e","q","u","i","r","e","d">>, TString), Field(<<"B">>, TSlice(TInt(64))),
                      Field(<<>>, TInt(64))>>)}

ManyFieldEnvs ==
  LET vals == {Absent} \cup {Present(v) : v \in BindTexts}
  IN  {(nameA :> a) @@ (nameB :> b) @@ (nameC :> c) :
         a \in vals, b \in vals, c \in vals}

\* a value of shape t other than its zero value: what an earlier assignment
\* may have left in the caller's record
RECURSIVE Prior(_)
Prior(t) ==
  CASE t.kind = "string"    -> Val("string", <<"p">>)
    [] t.kind = "int"       -> Val("int", 7)
    [] t.kind = "uint"      -> Val("uint", 7)
    [] t.kind = "float"     -> Val("float", FNum(FALSE, 7, 0))
    [] t.kind = "complex"   -> Val("complex", [re |-> FNum(FALSE, 7, 0), im |-> FZero])
    [] t.kind = "bool"      -> Val("bool", TRUE)
    [] t.kind = "interface" -> Ref("interface", <<"p">>, FALSE)
    [] t.kind = "slice"     -> Ref("slice", <<Prior(t.elem)>>, FALSE)
    [] t.kind = "map"       -> Ref("map", <<<<Prior(t.key), Prior(t.elem)>>>>, FALSE)
    [] t.kind = "array"     -> Val("array", [i \in 1..t.len |-> Prior(t.elem)])
    [] OTHER                -> Val(t.kind, <<>>)

PriorRecord(T) == [i \in 1..Len(T.fields) |-> Prior(T.fields[i].type)]

BindInit ==
  /\ dotenv = <<>>
  /\ cachedConfigs = <<>>
  /\ firstLoaded = <<>>
  /\ out = Idle
  /\ \/ /\ env \in OneFieldEnvs
        /\ \E T \in OneFieldTypes : in = [T |-> T, rec |-> ZeroRecord(T)]
     \/ /\ env \in ManyFieldEnvs
        /\ \E T \in ManyFieldTypes :
             \E r \in {ZeroRecord(T), PriorRecord(T)} : in = [T |-> T, rec |-> r]

\* err := parseEnvVar(&config)
BindCall ==
  /\ out.op = "none"
  /\ LET r == parseEnvVar(in.T, in.rec, env)
     IN  out' = [op |-> "parseEnvVar", err |-> r.err, rec |-> r.rec, handed |-> r.handed]
  /\ UNCHANGED <<env, dotenv, cachedConfigs, firstLoaded, in>>

SpecBind == BindInit /\ [][BindCall]_vars

(***************************************************************************)
(* Claims checked under SpecBind.                                          *)
(***************************************************************************)
Bound == out.op = "parseEnvVar"

\* what a required token and a default token of OneFieldTags mean
MeansRequired(r) == r \in {<<"r","e","q","u","i","r","e","d">>, <<"r","e","q","u","i","r","e","d","=","t","r","u","e">>}

MeansDefault(d) ==
  CASE d \in {<<"d","e","f","a","u","l","t","=","x">>, <<"d","e","f","a","u","l","t","=","'","x","'">>, <<"d","e","f","a","u","l","t","=","\"","x","\"">>} -> <<"x">>
    [] d = <<"d","e","f","a","u","l","t","=","1">>     -> <<"1">>
    [] d = <<"d","e","f","a","u","l","t","=","'","1",",","2","'">> -> <<"1",",","2">>
    [] OTHER                -> <<>>

RequiredMissing(name) ==
  Err("required environment variable not found", name, <<>>, "", "", 0, 0)

\* C1: the text given to the coercer is the variable's value when the
\* variable is present (empty or not, whatever required and default are);
\* when it is absent, a required field with an empty parsed default fails
\* with RequiredMissing(name) and any other field is given its parsed
\* default.  A required field with default x and no variable is given x (a
\* string field then holds x); a required field whose default is '' or "" or
\* '  ' and whose variable is absent fails.
C1_TextChoice ==
  (Bound /\ in.T.name = "One") =>
    \A r \in ReqTokens, d \in DefTokens :
      in.T.fields[1].tag \in {JoinTag(nameA, r, d), JoinTag(nameA, d, r)} =>
        LET a == env[nameA]
            t == in.T.fields[1].type
        IN  /\ a.exist => out.handed = <<a.value>>
            /\ (~a.exist /\ MeansRequired(r) /\ MeansDefault(d) = <<>>) =>
                 /\ out.err = RequiredMissing(nameA)
                 /\ out.handed = <<>>
                 /\ out.rec = in.rec
            /\ (~a.exist /\ ~(MeansRequired(r) /\ MeansDefault(d) = <<>>)) =>
                 /\ out.handed = <<MeansDefault(d)>>
                 /\ out.err.kind # "required environment variable not found"
            /\ (~a.exist /\ MeansRequired(r) /\ d = <<"d","e","f","a","u","l","t","=","x">> /\ t.kind = "string") =>
                 /\ out.err = NoErr
                 /\ out.rec = <<Val("string", <<"x">>)>>
            /\ (~a.exist /\ MeansRequired(r)
                  /\ d \in {<<"d","e","f","a","u","l","t","=","'","'">>, <<"d","e","f","a","u","l","t","=","'"," "," ","'">>, <<"d","e","f","a","u","l","t","=","\"","\"">>}) =>
                 out.err = RequiredMissing(nameA)

C1_Witness ==
  /\ Bound
  /\ in.T.fields[1].tag = <<"A",",","d","e","f","a","u","l","t","=","'"," "," ","'",",","r","e","q","u","i","r","e","d">>
  /\ ~env[nameA].exist
  /\ out.err = RequiredMissing(nameA)

\* C2: a field that is not required, has no default and whose variable is
\* absent binds without error and is left at the zero value of its shape.
C2_AbsentOptionalIsZero ==
  (Bound /\ in.T.name = "One" /\ in.T.fields[1].tag = nameA /\ ~env[nameA].exist) =>
    /\ out.err = NoErr
    /\ out.rec = ZeroRecord(in.T)

\* the outcome of binding field i of the record on its own
fieldOutcome(i) == parseFields(<<in.T.fields[i]>>, 1, <<in.rec[i]>>, env, <<>>)

\* C3: when bind fails, the error is that of the first field, in declaration
\* order, that fails; every field before it holds its newly bound value and
\* every field after it holds the value it had before the call.
C3_FailFast ==
  (Bound /\ in.T.kind = "struct" /\ out.err # NoErr) =>
    \E k \in 1..Len(in.T.fields) :
      /\ fieldOutcome(k).err # NoErr
      /\ \A j \in 1..(k - 1) : fieldOutcome(j).err = NoErr
      /\ out.err = fieldOutcome(k).err
      /\ \A j \in 1..(k - 1) : out.rec[j] = fieldOutcome(j).rec[1]
      /\ \A j \in (k + 1)..Len(in.T.fields) : out.rec[j] = in.rec[j]

C3_Witness ==
  /\ Bound
  /\ in.T.name = "M1"
  /\ in.rec = PriorRecord(in.T)
  /\ out.err.kind = "conversion failed"
  /\ out.rec[1] = Val("string", <<"x">>)
  /\ out.rec[3] = in.rec[3]
  /\ fieldOutcome(3).err = NoErr
  /\ fieldOutcome(3).rec[1] # in.rec[3]

HasUntagged(T) == \E i \in 1..Len(T.fields) : T.fields[i].tag = <<>>

FirstUntagged(T) ==
  CHOOSE i \in 1..Len(T.fields) :
    /\ T.fields[i].tag = <<>>
    /\ \A j \in 1..(i - 1) : T.fields[j].tag # <<>>

\* C4 as stated: a record with an untagged field always fails with
\* errTagNotFound, whatever its other fields and the environment are.
C4_AlwaysTagNotFound ==
  (Bound /\ in.T.kind = "struct" /\ HasUntagged(in.T)) => out.err = errTagNotFound

\* C4 as amended: a record with an untagged field always fails to bind; the
\* error is errTagNotFound when every field declared before the first
\* untagged one binds, and the error of the first failing earlier field
\* otherwise.
C4_UntaggedFails ==
  (Bound /\ in.T.kind = "struct" /\ HasUntagged(in.T)) =>
    LET m == FirstUntagged(in.T)
    IN  /\ out.err # NoErr
        /\ (\A j \in 1..(m - 1) : fieldOutcome(j).err = NoErr) => out.err = errTagNotFound
        /\ out.err # errTagNotFound =>
             \E j \in 1..(m - 1) :
               /\ out.err = fieldOutcome(j).err
               /\ \A i \in 1..(j - 1) : fieldOutcome(i).err = NoErr

C4_Witness ==
  /\ Bound
  /\ in.T.name = "N3"
  /\ out.err = errTagNotFound
  /\ out.rec[1] # in.rec[1]
(***************************************************************************)
(* SpecCoerce: setEnvVarValues applied to one sequence or mapping field    *)
(* under one tag and one text.                                             *)
(***************************************************************************)
MaxTokens == 3

MaxEntries == 2

\* the texts made of n parts joined by sep
RECURSIVE JoinedTexts(_, _, _)
JoinedTexts(parts, sep, n) ==
  IF n <= 1 THEN parts
  ELSE {p \o sep \o r : p \in parts, r \in JoinedTexts(parts, sep, n - 1)}

\* the sequence and map fields, tags and texts the calls are made on
CoerceInit ==
  LET SeqTags ==
        {<<"A">>, <<"A",",","d","e","l","i","m","i","t","e","r","=","'",";","'">>, <<"A",",","i","s","s","t","r","i","n","g">>, <<"A",",","d","e","l","i","m","i","t","e","r","=","'","'">>}
      SeqShapes ==
        {TSlice(TString), TSlice(TInt(8)), TSlice(TInt(32)), TSlice(TUint(8)), TSlice(TBool),
        TSlice(TStruct), TArray(2, TString), TArray(2, TInt(64)), TArray(3, TUint(8))}
      SeqTexts ==
        UNION {JoinedTexts({<<"1">>, <<" ","2"," ">>, <<"x">>, <<"3","0","0">>, <<>>}, <<",">>, n) : n \in 1..MaxTokens}
        \cup {<<"1",";","2">>, <<"x",";","1",";","2">>, <<"1",";","2",",","3">>}
      MapTags ==
        {<<"A">>, <<"A",",","d","e","l","i","m","i","t","e","r","=","'",";","'">>}
      MapShapes ==
        {TMap(TString, TString), TMap(TString, TInt(64)), TMap(TInt(64), TString),
        TMap(TStruct, TString), TMap(TString, TStruct)}
      MapBodies ==
        UNION {JoinedTexts({<<"a",":","1">>, <<"b",":","2">>, <<" ","1"," ",":"," ","2"," ">>, <<"a","1">>, <<"a",":","b",":","c">>, <<"a","{","b",":","1">>, <<"0","1",":","x","}","y">>},
        <<",">>, n) : n \in 1..MaxEntries}
        \cup {<<"a",":","1",";","b",":","2">>, <<"a",":","1",";","b","2">>, <<>>}
      MapTexts ==
        MapBodies \cup {<<"{">> \o b \o <<"}">> : b \in MapBodies}
        \cup {<<"{","{">> \o b \o <<"}","}">> : b \in MapBodies}
  IN  /\ env = <<>>
      /\ dotenv = <<>>
      /\ cachedConfigs = <<>>
      /\ firstLoaded = <<>>
      /\ out = Idle
      /\ \/ \E t \in SeqShapes, tg \in SeqTags, x \in SeqTexts :
              in = [T |-> t, tp |-> parseTagAndTagValues(tg), text |-> x]
         \/ \E t \in MapShapes, tg \in MapTags, x \in MapTexts :
              in = [T |-> t, tp |-> parseTagAndTagValues(tg), text |-> x]

\* setEnvVarValues on a slice or array field
SeqCall ==
  /\ out.op = "none"
  /\ in.T.kind \in {"slice", "array"}
  /\ LET r == setEnvVarValues(Zero(in.T), in.T, in.tp, in.text)
     IN  out' = [op |-> "setEnvVarValues", err |-> r.err, val |-> r.val]
  /\ UNCHANGED <<env, dotenv, cachedConfigs, firstLoaded, in>>

\* setEnvVarValues on a map field
MapCall ==
  /\ out.op = "none"
  /\ in.T.kind = "map"
  /\ LET r == setEnvVarValues(Zero(in.T), in.T, in.tp, in.text)
     IN  out' = [op |-> "setEnvVarValues", err |-> r.err, val |-> r.val]
  /\ UNCHANGED <<env, dotenv, cachedConfigs, firstLoaded, in>>

SpecCoerce == CoerceInit /\ [][SeqCall \/ MapCall]_vars

(***************************************************************************)
(* Claims checked under SpecCoerce.                                        *)
(***************************************************************************)
SeqDone == out.op = "setEnvVarValues" /\ in.T.kind \in {"slice", "array"}

MapDone == out.op = "setEnvVarValues" /\ in.T.kind = "map"

\* the text of the call split by the delimiter of its tag
Tokens == Split(in.text, in.tp.Delimiter)

\* a fixed-length sequence binds only a text of as many tokens as it has
\* elements, and reports the two counts otherwise; a slice has no such check
SeqLengthRule ==
  /\ in.T.kind = "array" /\ Len(Tokens) # in.T.len
       => out.err = Err("array length", in.tp.EnvName, <<>>, "", "", Len(Tokens), in.T.len)
  /\ in.T.kind = "array" /\ out.err = NoErr => Len(Tokens) = in.T.len
  /\ in.T.kind = "slice" => out.err.kind # "array length"

\* on success there is one element per token, element i being the trimmed
\* token i parsed as the element shape
SeqElementRule ==
  out.err = NoErr =>
    /\ Len(out.val.val) = Len(Tokens)
    /\ \A i \in 1..Len(Tokens) :
         /\ parseToken(in.T.elem, TrimSpace(Tokens[i])).ok
         /\ out.val.val[i] = parseToken(in.T.elem, TrimSpace(Tokens[i])).val

\* C6 as stated: a sequence field is bound token by token (element i is the
\* coercion of the trimmed token i, a slice is as long as the token count) and
\* an array of length N rejects a text of M # N tokens with the length error
\* naming the variable, N and M
C6_SequenceByTokens == SeqDone => SeqLengthRule /\ SeqElementRule

\* C6 amended: the length rule holds for every sequence field; the
\* token-by-token rule holds when the string hint does not apply to the field
C6_SequenceByTokensUnlessHint ==
  SeqDone => /\ SeqLengthRule
             /\ ~hintApplies(in.T, in.tp) => SeqElementRule

C6_Witness ==
  /\ SeqDone
  /\ in.T = TSlice(TInt(8))
  /\ ~in.tp.isString
  /\ Len(Tokens) = 3
  /\ \E i \in 1..3 : Tokens[i] # TrimSpace(Tokens[i])
  /\ out.err = NoErr
  /\ Len(out.val.val) = 3

\* the entries of the text of the call, braces removed as the code does
Entries == stripBraces(Tokens)

HasColon(e) == \E p \in 1..Len(e) : e[p] = ":"

FirstColon(e) ==
  CHOOSE p \in 1..Len(e) : e[p] = ":" /\ \A q \in 1..(p - 1) : e[q] # ":"

KeyOf(e) == parseToken(in.T.key, TrimSpace(SubSeq(e, 1, FirstColon(e) - 1)))

ValueOf(e) == parseToken(in.T.elem, TrimSpace(SubSeq(e, FirstColon(e) + 1, Len(e))))

EntryBinds(e) == HasColon(e) /\ KeyOf(e).ok /\ ValueOf(e).ok

\* a text whose entries all bind, with distinct keys, gives exactly their pairs
WellFormedRule ==
  (/\ \A i \in 1..Len(Entries) : EntryBinds(Entries[i])
   /\ \A i, j \in 1..Len(Entries) :
        i # j => KeyOf(Entries[i]).val # KeyOf(Entries[j]).val)
    => /\ out.err = NoErr
       /\ Len(out.val.val) = Len(Entries)
       /\ {out.val.val[i] : i \in 1..Len(out.val.val)}
            = {<<KeyOf(Entries[i]).val, ValueOf(Entries[i]).val>> : i \in 1..Len(Entries)}

\* C7 as stated: entries are split at their first ':' and a well-formed text
\* binds to exactly its pairs; a text with an entry that has no ':' fails with
\* the invalid-entry error naming the variable and the first such entry,
\* whatever the key shape
C7_MapEntries ==
  MapDone =>
    /\ WellFormedRule
    /\ \A j \in 1..Len(Entries) :
         (~HasColon(Entries[j]) /\ \A i \in 1..(j - 1) : HasColon(Entries[i]))
           => out.err = Err("invalid map entry", in.tp.EnvName, Entries[j], "", "", 0, 0)

\* C7 amended: the entry without ':' is reported when every entry before it
\* binds; an entry before it that fails is reported instead
C7_MapEntriesInOrder ==
  MapDone =>
    /\ WellFormedRule
    /\ \A j \in 1..Len(Entries) :
         (~HasColon(Entries[j]) /\ \A i \in 1..(j - 1) : EntryBinds(Entries[i]))
           => out.err = Err("invalid map entry", in.tp.EnvName, Entries[j], "", "", 0, 0)
    /\ \A j \in 1..Len(Entries) :
         (HasColon(Entries[j]) /\ ~EntryBinds(Entries[j])
            /\ \A i \in 1..(j - 1) : EntryBinds(Entries[i]))
           => out.err.kind \in {"unsupported map key type", "map key conversion failed",
                                "unsupported map value type",
                                "map value conversion failed"}

C7_Witness ==
  /\ MapDone
  /\ out.err = NoErr
  /\ Len(out.val.val) = 2
  /\ Len(Entries) = 2
  /\ \E i \in 1..2 : FirstColon(Entries[i]) < Len(Entries[i]) - 1
                       /\ HasColon(SubSeq(Entries[i], FirstColon(Entries[i]) + 1,
                                          Len(Entries[i])))

\* the entries with one leading '{' taken from the first and one trailing '}'
\* from the last
StripOne ==
  LET n     == Len(Tokens)
      first == IF Tokens[1] # <<>> /\ Head(Tokens[1]) = "{"
               THEN [Tokens EXCEPT ![1] = Tail(Tokens[1])]
               ELSE Tokens
  IN  IF first[n] # <<>> /\ first[n][Len(first[n])] = "}"
      THEN [first EXCEPT ![n] = SubSeq(first[n], 1, Len(first[n]) - 1)]
      ELSE first

\* C8 as stated: one leading '{' and one trailing '}' are removed and every
\* other brace stays in the key or value text: a map of strings that binds
\* holds the pairs of the entries stripped that way
C8_OneBraceEach ==
  (MapDone /\ in.T = TMap(TString, TString) /\ out.err = NoErr)
    => {out.val.val[i] : i \in 1..Len(out.val.val)}
         = {<<KeyOf(StripOne[i]).val, ValueOf(StripOne[i]).val>> : i \in 1..Len(StripOne)}
(***************************************************************************)
(* settings.go, env.go, envarfig.go: the options, the file pre-load and    *)
(* LoadEnv.  A file of dotenv is [exists, vars]; the cache maps the name   *)
(* of a type, which stands for its identity, to the record stored for it.  *)
(***************************************************************************)
NilFiles == [isNil |-> TRUE, names |-> <<>>]

WithEnvFiles(envFiles) ==
  [opt |-> "EnvFiles", flag |-> FALSE,
   files |-> IF envFiles = <<>> THEN NilFiles ELSE [isNil |-> FALSE, names |-> envFiles]]

WithAutoLoadEnv(AutoLoadEnv) == [opt |-> "AutoLoadEnv", flag |-> AutoLoadEnv, files |-> NilFiles]

WithCacheConfig(CacheConfig) == [opt |-> "CacheConfig", flag |-> CacheConfig, files |-> NilFiles]

RECURSIVE applyOptions(_, _, _)
applyOptions(opts, i, setting) ==
  IF i > Len(opts) THEN setting
  ELSE applyOptions(opts, i + 1,
         CASE opts[i].opt = "EnvFiles"    -> [setting EXCEPT !.EnvFiles = opts[i].files]
           [] opts[i].opt = "AutoLoadEnv" -> [setting EXCEPT !.AutoLoadEnv = opts[i].flag]
           [] opts[i].opt = "CacheConfig" -> [setting EXCEPT !.CacheConfig = opts[i].flag])

loadSettings(opts) ==
  applyOptions(opts, 1, [AutoLoadEnv |-> TRUE, EnvFiles |-> NilFiles, CacheConfig |-> TRUE])

\* godotenv.Load on the files names from file i on: a file that cannot be
\* read ends the load with an error; a variable of a file is set when the
\* environment does not have it.  given is the argument list of the call.
RECURSIVE loadFiles(_, _, _, _, _)
loadFiles(fs, given, names, i, e) ==
  IF i > Len(names)
  THEN [ok |-> TRUE, env |-> e, calls |-> 1, err |-> NoErr, args |-> <<given>>]
  ELSE IF ~fs[names[i]].exists
       THEN [ok |-> FALSE, env |-> e, calls |-> 1,
             err |-> Err("open", <<>>, <<>>, "", names[i], 0, 0), args |-> <<given>>]
       ELSE loadFiles(fs, given, names, i + 1,
                      [n \in DOMAIN e |->
                         IF ~e[n].exist /\ n \in DOMAIN fs[names[i]].vars
                         THEN Present(fs[names[i]].vars[n])
                         ELSE e[n]])

\* envLoader = godotenv.Load: without names it loads the file .env
envLoader(fs, names, e) ==
  IF names = <<>> THEN loadFiles(fs, names, <<".env">>, 1, e)
  ELSE loadFiles(fs, names, names, 1, e)

errAutoLoadFalseFilePath == Err("errAutoLoadFalseFilePath", <<>>, <<>>, "", "", 0, 0)

\* loadEnvFile treating an empty list of paths as no list
loadEnvFile_emptyIsNil(autoLoadEnv, filePath, fs, e) ==
  IF autoLoadEnv THEN envLoader(fs, filePath.names, e)
  ELSE IF filePath.names # <<>>
       THEN [ok |-> FALSE, env |-> e, calls |-> 0, err |-> errAutoLoadFalseFilePath,
             args |-> <<>>]
       ELSE [ok |-> TRUE, env |-> e, calls |-> 0, err |-> NoErr, args |-> <<>>]

\* [ok, env, calls, err, args]: err is the error returned, args the argument
\* lists of the calls of envLoader and calls their number
loadEnvFile(autoLoadEnv, filePath, fs, e) ==
  IF autoLoadEnv /\ filePath.isNil THEN envLoader(fs, <<>>, e)
  ELSE IF autoLoadEnv THEN envLoader(fs, filePath.names, e)
       ELSE IF ~filePath.isNil
            THEN [ok |-> FALSE, env |-> e, calls |-> 0, err |-> errAutoLoadFalseFilePath,
                  args |-> <<>>]
            ELSE [ok |-> TRUE, env |-> e, calls |-> 0, err |-> NoErr, args |-> <<>>]

\* what a LoadEnv call leaves: its error, the caller's record, the cache, the
\* environment, the number of envLoader calls and the texts handed to the
\* coercer
Loaded(err, rec, c, e, calls, handed) ==
  [err |-> err, rec |-> rec, cache |-> c, env |-> e, calls |-> calls, handed |-> handed]

\* storeConfig storing the record whatever parseEnvVar returned
storeConfig_evenOnError(envConfig, c, pre, r) ==
  Loaded(r.err, r.rec, [c EXCEPT ![envConfig.T.name] = Entry(r.rec)],
         pre.env, pre.calls, r.handed)

\* lines 48-52 of LoadEnv: r is what parseEnvVar returned
storeConfig(envConfig, c, pre, r) ==
  Loaded(r.err, r.rec,
         IF r.err = NoErr THEN [c EXCEPT ![envConfig.T.name] = Entry(r.rec)] ELSE c,
         pre.env, pre.calls, r.handed)

\* lines 41-48 of LoadEnv: pre is what loadEnvFile returned
parseAfterPreload(envConfig, c, pre) ==
  IF ~pre.ok
  THEN Loaded(errInvalidEnvPathArgs, envConfig.rec, c, pre.env, pre.calls, <<>>)
  ELSE storeConfig(envConfig, c, pre, parseEnvVar(envConfig.T, envConfig.rec, pre.env))

\* lines 36-41 of LoadEnv: the function run by once.Do
loadOnce(envConfig, settings, c, fs, e) ==
  parseAfterPreload(envConfig, c,
                    loadEnvFile(settings.AutoLoadEnv, settings.EnvFiles, fs, e))

\* LoadEnv calling the file pre-load before its checks
LoadEnv_preloadFirst(envConfig, options, c, fs, e) ==
  LET pre == loadEnvFile(loadSettings(options).AutoLoadEnv,
                         loadSettings(options).EnvFiles, fs, e)
  IN  IF envConfig.isNil
      THEN Loaded(errNilConfig, envConfig.rec, c, pre.env, pre.calls, <<>>)
      ELSE IF c[envConfig.T.name].ok
           THEN Loaded(NoErr, c[envConfig.T.name].rec, c, pre.env, pre.calls, <<>>)
           ELSE parseAfterPreload(envConfig, c, pre)

\* LoadEnv without the cache lookup
LoadEnv_noLookup(envConfig, options, c, fs, e) ==
  IF envConfig.isNil THEN Loaded(errNilConfig, envConfig.rec, c, e, 0, <<>>)
  ELSE loadOnce(envConfig, loadSettings(options), c, fs, e)

\* LoadEnv(envConfig, options...) with the cache c, the files fs and the
\* environment e; envConfig is [T, isNil, rec]
LoadEnv(envConfig, options, c, fs, e) ==
  IF envConfig.isNil THEN Loaded(errNilConfig, envConfig.rec, c, e, 0, <<>>)
  ELSE IF c[envConfig.T.name].ok
       THEN Loaded(NoErr, c[envConfig.T.name].rec, c, e, 0, <<>>)
       ELSE loadOnce(envConfig, loadSettings(options), c, fs, e)
(***************************************************************************)
(* Spec: LoadEnv calls, one after the other, between changes of the        *)
(* environment.  out.turn flips at every LoadEnv call.                     *)
(***************************************************************************)
Config1 == RecordType("Config1", <<Field(<<"A">>, TString), Field(<<"B">>, TInt(64))>>)

\* another type with the fields and tags of Config1
Config2 == RecordType("Config2", <<Field(<<"A">>, TString), Field(<<"B">>, TInt(64))>>)

LoadTypes == {Config1, Config2, OtherType("int")}

OptionLists ==
  {<<>>, <<WithCacheConfig(FALSE)>>, <<WithAutoLoadEnv(FALSE)>>,
   <<WithEnvFiles(<<"x.env">>)>>,
   <<WithAutoLoadEnv(FALSE), WithCacheConfig(FALSE)>>,
   <<WithAutoLoadEnv(FALSE), WithEnvFiles(<<"x.env">>)>>}

DotenvSets ==
  {(".env" :> [exists |-> FALSE, vars |-> <<>>]) @@ ("x.env" :> [exists |-> FALSE, vars |-> <<>>]),
   (".env" :> [exists |-> TRUE, vars |-> (nameB :> <<"7">>)])
     @@ ("x.env" :> [exists |-> TRUE, vars |-> (nameA :> <<"h">>)])}

Init ==
  /\ env = (nameA :> Absent) @@ (nameB :> Absent)
  /\ dotenv \in DotenvSets
  /\ cachedConfigs = [n \in {T.name : T \in LoadTypes} |-> NoEntry]
  /\ firstLoaded = [n \in {T.name : T \in LoadTypes} |-> NoEntry]
  /\ in = [T |-> Config1, isNil |-> FALSE, rec |-> <<>>, options |-> <<>>]
  /\ out = [op |-> "none", err |-> NoErr, rec |-> <<>>, calls |-> 0, handed |-> <<>>,
            turn |-> 0]

\* the state after the call of LoadEnv on envConfig has returned r
Returned(envConfig, options, r, turn, first) ==
  [in    |-> [T |-> envConfig.T, isNil |-> envConfig.isNil, rec |-> envConfig.rec,
              options |-> options],
   out   |-> [op |-> "LoadEnv", err |-> r.err, rec |-> r.rec, calls |-> r.calls,
              handed |-> r.handed, turn |-> 1 - turn],
   env   |-> r.env,
   cache |-> r.cache,
   first |-> IF ~envConfig.isNil /\ r.err = NoErr /\ ~first[envConfig.T.name].ok
             THEN [first EXCEPT ![envConfig.T.name] = Entry(r.rec)]
             ELSE first]

\* the variable a caller declares and passes by address, or a nil pointer
Pointer(T, isNil) ==
  [T |-> T, isNil |-> isNil, rec |-> IF isNil THEN <<>> ELSE ZeroRecord(T)]

\* err := LoadEnv(&config, options...)
LoadEnvCall ==
  \E T \in LoadTypes, isNil \in BOOLEAN, options \in OptionLists :
    \E post \in {Returned(Pointer(T, isNil), options,
                          LoadEnv(Pointer(T, isNil), options, cachedConfigs, dotenv, env),
                          out.turn, firstLoaded)} :
      /\ in' = post.in
      /\ out' = post.out
      /\ env' = post.env
      /\ cachedConfigs' = post.cache
      /\ firstLoaded' = post.first
      /\ UNCHANGED dotenv

\* os.Setenv(name, value)
Setenv ==
  /\ \E p \in {<<nameA, <<"h">>>>, <<nameB, <<"1">>>>, <<nameB, <<"2">>>>, <<nameB, <<"x">>>>} :
       env' = [env EXCEPT ![p[1]] = Present(p[2])]
  /\ UNCHANGED <<dotenv, cachedConfigs, firstLoaded, in, out>>

\* os.Unsetenv(name)
Unsetenv ==
  /\ \E n \in DOMAIN env : env' = [env EXCEPT ![n] = Absent]
  /\ UNCHANGED <<dotenv, cachedConfigs, firstLoaded, in, out>>

Next == LoadEnvCall \/ Setenv \/ Unsetenv

Spec == Init /\ [][Next]_vars
(***************************************************************************)
(* Claims checked under Spec.  They are about the LoadEnv steps: in, out   *)
(* describe the call before the step, in', out' the call of the step.      *)
(***************************************************************************)
LoadStep == out'.turn # out.turn

\* the file pre-load of the call of the step, run on the state before it
Preload ==
  loadEnvFile(loadSettings(in'.options).AutoLoadEnv, loadSettings(in'.options).EnvFiles,
              dotenv, env)

\* binding the caller's record afresh from the environment the pre-load left
Afresh == parseEnvVar(in'.T, in'.rec, Preload.env)

\* a call on a nil pointer returns errNilConfig, calls no loader, hands no
\* text to the coercer and leaves the environment and the cache as they were
NilRule ==
  in'.isNil =>
    /\ out'.err = errNilConfig
    /\ out'.calls = 0
    /\ out'.handed = <<>>
    /\ env' = env
    /\ cachedConfigs' = cachedConfigs

\* C5 as stated: a nil pointer gives errNilConfig without loader, environment
\* or cache being used; a pointer to a value that is no record gives
\* errConfigNotPtrToStruct, no field is processed and nothing is cached
C5_NilAndNonRecord ==
  [][LoadStep =>
       /\ NilRule
       /\ (~in'.isNil /\ in'.T.kind # "struct") =>
            /\ out'.err = errConfigNotPtrToStruct
            /\ out'.handed = <<>>
            /\ ~cachedConfigs'[in'.T.name].ok]_vars

\* C5 amended: the pointer to a non-record gives errConfigNotPtrToStruct when
\* the file pre-load succeeds and errInvalidEnvPathArgs when it fails
C5_NilAndNonRecordAfterPreload ==
  [][LoadStep =>
       /\ NilRule
       /\ (~in'.isNil /\ in'.T.kind # "struct") =>
            /\ out'.err = IF Preload.ok THEN errConfigNotPtrToStruct
                          ELSE errInvalidEnvPathArgs
            /\ out'.handed = <<>>
            /\ ~cachedConfigs'[in'.T.name].ok]_vars

C5_Witness ==
  /\ out.op = "LoadEnv"
  /\ ~in.isNil
  /\ in.T.kind # "struct"
  /\ out.err = errConfigNotPtrToStruct
  /\ out.calls = 1
  /\ cachedConfigs["Config1"].ok
  /\ ~cachedConfigs[in.T.name].ok

C10_ReloadWhenCacheOff ==
  [][(/\ LoadStep
      /\ out.op = "LoadEnv"
      /\ ~in.isNil /\ ~in'.isNil
      /\ in'.T = in.T /\ in.T.kind = "struct"
      /\ ~loadSettings(in.options).CacheConfig
      /\ ~loadSettings(in'.options).CacheConfig
      /\ out.err = NoErr
      /\ Preload.ok)
       => out'.err = Afresh.err /\ out'.rec = Afresh.rec]_vars
(***************************************************************************)
(* SpecLoadFile: loadEnvFile applied once to a flag and a list of paths.   *)
(* in.env is the environment before the call.                              *)
(***************************************************************************)
LoadFileInit ==
  /\ dotenv \in {(".env" :> [exists |-> d, vars |-> (nameB :> <<"7">>)])
                   @@ ("x.env" :> [exists |-> x, vars |-> (nameA :> <<"h">>)])
                   @@ ("y.env" :> [exists |-> y, vars |-> (nameA :> <<"k">>)]) :
                  d \in BOOLEAN, x \in BOOLEAN, y \in BOOLEAN}
  /\ env \in {(nameA :> a) @@ (nameB :> Absent) : a \in {Absent, Present(<<"e">>)}}
  /\ cachedConfigs = <<>>
  /\ firstLoaded = <<>>
  /\ out = [op |-> "none", err |-> NoErr, args |-> <<>>]
  /\ \E autoLoadEnv \in BOOLEAN :
       \E filePath \in {NilFiles} \cup
                       {[isNil |-> FALSE, names |-> n] :
                          n \in {<<>>, <<"x.env">>, <<"y.env">>, <<"x.env", "y.env">>,
                                 <<"y.env", "x.env">>}} :
         in = [autoLoadEnv |-> autoLoadEnv, filePath |-> filePath, env |-> env]

\* err := loadEnvFile(autoLoadEnv, filePath)
LoadFileCall ==
  /\ out.op = "none"
  /\ \E r \in {loadEnvFile(in.autoLoadEnv, in.filePath, dotenv, env)} :
       /\ out' = [op |-> "loadEnvFile", err |-> r.err, args |-> r.args]
       /\ env' = r.env
  /\ UNCHANGED <<dotenv, cachedConfigs, firstLoaded, in>>

SpecLoadFile == LoadFileInit /\ [][LoadFileCall]_vars

(***************************************************************************)
(* Claims checked under SpecLoadFile.                                      *)
(***************************************************************************)
LoadFileDone == out.op = "loadEnvFile"

\* the loader is called once with the arguments given and the call returns
\* what the loader returned and leaves the environment the loader left
CalledOnceWith(given) ==
  /\ out.args = <<given>>
  /\ out.err = envLoader(dotenv, given, in.env).err
  /\ env = envLoader(dotenv, given, in.env).env

NeverCalled == out.args = <<>> /\ env = in.env

\* C11 as stated: with autoLoad the loader is called once, without arguments
\* when there are no paths and with the paths in order otherwise, and its
\* result is returned; without autoLoad the loader is never called, the call
\* fails with errAutoLoadFalseFilePath when there are paths and succeeds when
\* there are none
C11_ByPathCount ==
  LoadFileDone =>
    /\ (in.autoLoadEnv /\ in.filePath.names = <<>>) => CalledOnceWith(<<>>)
    /\ (in.autoLoadEnv /\ in.filePath.names # <<>>) => CalledOnceWith(in.filePath.names)
    /\ (~in.autoLoadEnv /\ in.filePath.names # <<>>)
         => out.err = errAutoLoadFalseFilePath /\ NeverCalled
    /\ (~in.autoLoadEnv /\ in.filePath.names = <<>>) => out.err = NoErr /\ NeverCalled

\* C11 amended: without autoLoad the call fails with errAutoLoadFalseFilePath
\* when a list of paths is given, be it empty, and succeeds only when the
\* list is nil
C11_ByNilList ==
  LoadFileDone =>
    /\ (in.autoLoadEnv /\ in.filePath.names = <<>>) => CalledOnceWith(<<>>)
    /\ (in.autoLoadEnv /\ in.filePath.names # <<>>) => CalledOnceWith(in.filePath.names)
    /\ (~in.autoLoadEnv /\ ~in.filePath.isNil)
         => out.err = errAutoLoadFalseFilePath /\ NeverCalled
    /\ (~in.autoLoadEnv /\ in.filePath.isNil) => out.err = NoErr /\ NeverCalled

C11_Witness ==
  /\ LoadFileDone
  /\ in.autoLoadEnv
  /\ in.filePath.names = <<"y.env", "x.env">>
  /\ out.args = <<<<"y.env", "x.env">>>>
  /\ out.err = NoErr
  /\ ~in.env[nameA].exist
  /\ env[nameA] = Present(<<"k">>)

\* C12 as stated: a call that runs the file pre-load and whose pre-load fails
\* binds no field and returns an error that tells the two failures apart:
\* errInvalidEnvPathArgs when the loader failed on the paths, and the error of
\* auto-load being off while paths are given (errAutoLoadFalseFilePath) in
\* that case
C12_PreloadErrorByKind ==
  [][(LoadStep /\ ~in'.isNil /\ ~cachedConfigs[in'.T.name].ok /\ ~Preload.ok) =>
       /\ out'.handed = <<>>
       /\ out'.rec = in'.rec
       /\ Preload.err.kind = "open" => out'.err = errInvalidEnvPathArgs
       /\ Preload.err = errAutoLoadFalseFilePath
            => out'.err = errAutoLoadFalseFilePath]_vars
(***************************************************************************)
(* SpecTag: parseTagAndTagValues applied to one env tag.  in.toks are the  *)
(* tokens the tag was written with after its name A (none for the tags     *)
(* enumerated character by character, of kind "raw").                      *)
(***************************************************************************)
MaxTagLen == 4

\* name,tok1,...,tokn
RECURSIVE TagOf(_, _)
TagOf(name, toks) ==
  IF toks = <<>> THEN name
  ELSE TagOf(name \o <<",">> \o Head(toks), Tail(toks))

TagInit ==
  LET Flags ==
        {<<"t","r","u","e">>, <<"f","a","l","s","e">>, <<"T","R","U","E">>, <<"F","A","L","S","E">>, <<"F","a","l","s","e">>, <<" ","f","a","l","s","e"," ">>, <<"y","e","s">>, <<"0">>, <<>>,
         <<"x">>, <<"n","o","f","a","l","s","e">>, <<"f","a","l","s","e","y">>, <<"f","a","l","s","e","=","x">>, <<"x","=","f","a","l","s","e">>, <<"t","r","u","e","f","a","l","s","e">>, <<"u","n","t","r","u","e">>, <<"d","e","f","a","u","l","t">>}
      ReqTokens1 ==
        {<<"r","e","q","u","i","r","e","d">>, <<"R","E","Q","U","I","R","E","D">>, <<" ","r","e","q","u","i","r","e","d"," ">>}
          \cup {k \o v : k \in {<<"r","e","q","u","i","r","e","d","=">>, <<"R","e","q","u","i","r","e","d"," ","="," ">>}, v \in Flags}
      DefTokens1 ==
        {<<"d","e","f","a","u","l","t">>, <<"D","E","F","A","U","L","T">>}
          \cup {k \o v : k \in {<<"d","e","f","a","u","l","t","=">>, <<"D","e","f","a","u","l","t"," ","="," ">>},
                         v \in {<<"x">>, <<"'","x","'">>, <<"\"","x","\"">>, <<>>, <<"'","'">>, <<"\"","\"">>, <<"'"," "," ","'">>, <<"X">>,
                                <<" ","x"," ">>, <<"'"," ","x"," ","'">>, <<"'","1",",","2","'">>, <<"\"","a",",","b","\"">>, <<"'","x","\"">>, <<"'">>,
                                <<"a","=","b">>, <<"'","A"," ","b","'">>, <<"'","'","x","'","'">>, <<"a","'","b",",","c","'","d">>, <<"l","o","c","a","l","h","o","s","t",":","4","0","0","0">>,
                                <<"r","e","q","u","i","r","e","d">>, <<"i","s","s","t","r","i","n","g">>, <<"'","d","e","l","i","m","i","t","e","r","'">>}}
      DelimTokens1 ==
        {<<"d","e","l","i","m","i","t","e","r">>, <<"D","E","L","I","M","I","T","E","R">>}
          \cup {k \o v : k \in {<<"d","e","l","i","m","i","t","e","r","=">>, <<"D","e","l","i","m","i","t","e","r"," ","="," ">>},
                         v \in {<<"'",";","'">>, <<"\"",";","\"">>, <<"'","|","'">>, <<"'"," ",";"," ","'">>, <<"'","X","'">>, <<"'",",","'">>, <<"\"",",","\"">>,
                                <<";">>, <<>>, <<"'","'">>, <<"'",";","\"">>, <<"'">>, <<"'","a","b","'">>, <<"'"," "," ","'">>, <<"x">>,
                                <<"'","a","X","b","'">>, <<"\"","T","\"">>, <<"'","d","e","f","a","u","l","t","'">>, <<"'","r","e","q","u","i","r","e","d","'">>}}
      HintTokens1 ==
        {<<"i","s","s","t","r","i","n","g">>, <<"I","S","S","T","R","I","N","G">>}
          \cup {k \o v : k \in {<<"i","s","s","t","r","i","n","g","=">>, <<"I","s","S","t","r","i","n","g"," ","="," ">>}, v \in Flags}
      HintLists ==
        {<<t>> : t \in HintTokens1}
          \cup {<<t, u>> : t, u \in {<<"i","s","s","t","r","i","n","g">>, <<"i","s","s","t","r","i","n","g","=","t","r","u","e">>, <<"i","s","s","t","r","i","n","g","=","f","a","l","s","e">>,
                                     <<"i","s","s","t","r","i","n","g","=","x">>, <<"i","s","s","t","r","i","n","g","=","x","f","a","l","s","e">>}}
  IN  /\ env = <<>>
      /\ dotenv = <<>>
      /\ cachedConfigs = <<>>
      /\ firstLoaded = <<>>
      /\ out = [op |-> "none", parts |-> <<>>,
                tp |-> tagProperties(<<>>, <<>>, <<>>, FALSE, FALSE)]
      /\ \/ \E t \in ReqTokens1 :
              in = [kind |-> "required", tag |-> TagOf(nameA, <<t>>), toks |-> <<t>>]
         \/ \E t \in DefTokens1 :
              in = [kind |-> "default", tag |-> TagOf(nameA, <<t>>), toks |-> <<t>>]
         \/ \E t \in DelimTokens1 :
              in = [kind |-> "delimiter", tag |-> TagOf(nameA, <<t>>), toks |-> <<t>>]
         \/ \E l \in HintLists :
              in = [kind |-> "isstring", tag |-> TagOf(nameA, l), toks |-> l]
         \/ \E n \in 1..MaxTagLen :
              \E t \in JoinedTexts({<<"A">>, <<",">>, <<"'">>, <<"\"">>, <<"\\">>, <<" ">>}, <<>>, n) :
                in = [kind |-> "raw", tag |-> t, toks |-> <<>>]

\* tagProp := parseTagAndTagValues(tag), for a field that has a tag
ParseTagCall ==
  /\ out.op = "none"
  /\ out' = [op |-> "parseTagAndTagValues", parts |-> splitTagRespectingQuotes(in.tag),
             tp |-> parseTagAndTagValues(in.tag)]
  /\ UNCHANGED <<env, dotenv, cachedConfigs, firstLoaded, in>>

SpecTag == TagInit /\ [][ParseTagCall]_vars

(***************************************************************************)
(* Claims checked under SpecTag.                                           *)
(***************************************************************************)
TagDone == out.op = "parseTagAndTagValues"

\* the text of a token after its first '=', trimmed and lower-cased
FlagOf(tok) == ToLower(TrimSpace(Drop(tok, Index(tok, <<"=">>))))

\* a token that is the bare keyword, or keyword=V with V other than false
NotFalse(tok) == ~Contains(tok, <<"=">>) \/ FlagOf(tok) # <<"f","a","l","s","e">>

\* C13 as stated: for a tag A,T with T one required token, the field is
\* required when T is the bare keyword or required=V with any V, garbage
\* included, except when V, trimmed and lower-cased, is exactly false
C13_RequiredUnlessFalse ==
  (TagDone /\ in.kind = "required") => out.tp.Required = NotFalse(in.toks[1])

\* v is a literal in single or double quotes
OuterQuoted(v) == Len(v) >= 2 /\ v[1] = v[Len(v)] /\ v[1] \in {"'", "\""}

\* v without one pair of equal outer quotes, the inside trimmed
Unquoted(v) == IF OuterQuoted(v) THEN TrimSpace(SubSeq(v, 2, Len(v) - 1)) ELSE v

\* C14: for a tag A,T with T one default token, the default of default=V is
\* V trimmed and lower-cased, without one pair of equal outer quotes (' or ")
\* and with the inside trimmed again: default='x', default="x" and default=x
\* give x; default='', default="" and default='  ' give the empty text; a
\* quoted value with a comma stays one token and is kept whole; a default
\* token without '=' leaves the default empty
C14_DefaultUnquoted ==
  (TagDone /\ in.kind = "default") =>
    LET t == in.toks[1]
    IN  /\ Contains(t, <<"=">>) => out.tp.DefaultValue = Unquoted(FlagOf(t))
        /\ ~Contains(t, <<"=">>) => out.tp.DefaultValue = <<>>
        /\ t \in {<<"d","e","f","a","u","l","t","=","'","x","'">>, <<"d","e","f","a","u","l","t","=","\"","x","\"">>, <<"d","e","f","a","u","l","t","=","x">>}
             => out.tp.DefaultValue = <<"x">>
        /\ t \in {<<"d","e","f","a","u","l","t","=","'","'">>, <<"d","e","f","a","u","l","t","=","\"","\"">>, <<"d","e","f","a","u","l","t","=","'"," "," ","'">>}
             => out.tp.DefaultValue = <<>>
        /\ t = <<"d","e","f","a","u","l","t","=","'","1",",","2","'">>
             => out.tp.DefaultValue = <<"1",",","2">> /\ Len(out.parts) = 2
        /\ t = <<"d","e","f","a","u","l","t","=","\"","a",",","b","\"">>
             => out.tp.DefaultValue = <<"a",",","b">> /\ Len(out.parts) = 2

C14_Witness ==
  /\ TagDone
  /\ in.toks = <<<<"D","e","f","a","u","l","t"," ","="," ","'"," ","x"," ","'">>>>
  /\ out.tp.DefaultValue = <<"x">>

\* the text of a token after its first '=', trimmed, as it is written
ValueText(tok) == TrimSpace(Drop(tok, Index(tok, <<"=">>)))

\* C15 as stated: for a tag A,T with T one delimiter token, the delimiter is
\* ',' unless T is delimiter=Q with Q a literal in single or double quotes;
\* the delimiter is then exactly the text inside the quotes, trimmed
C15_DelimiterAsQuoted ==
  (TagDone /\ in.kind = "delimiter") =>
    LET t == in.toks[1]
    IN  out.tp.Delimiter =
          IF Contains(t, <<"=">>) /\ OuterQuoted(ValueText(t))
          THEN Unquoted(ValueText(t))
          ELSE <<",">>

\* C16 as stated: for a tag A,T1 or A,T1,T2 with every T an isstring token,
\* the string hint is set exactly when some token is the bare keyword or
\* isstring=V with V other than false; isstring=false neither sets the hint
\* nor clears one set by another token
C16_HintUnlessFalse ==
  (TagDone /\ in.kind = "isstring") =>
    out.tp.isString = (\E i \in 1..Len(in.toks) : NotFalse(in.toks[i]))

\* the code points of the characters of a text, as elements of shape t
RawElements(t, text) == [i \in 1..Len(text) |-> Val(t.kind, Code(text[i]))]

\* C17 as stated: when the string hint is set on a sequence of bytes or of
\* code points, of fixed or of variable length, the bind does not split the
\* text: it succeeds and the field holds the characters of the raw text
C17_RawTextWithHint ==
  (SeqDone /\ hintApplies(in.T, in.tp)) =>
    /\ out.err = NoErr
    /\ out.val.val = RawElements(in.T.elem, in.text)

\* character i of the tag is a quote character not preceded by a backslash
QuoteMark(tag, i) == tag[i] \in {"'", "\""} /\ (i = 1 \/ tag[i - 1] # "\\")

\* the quote character of the span open after the first n characters of the
\* tag, "" outside a span: a span is opened by a quote mark and closed by the
\* next mark of the same character
RECURSIVE OpenSpan(_, _)
OpenSpan(tag, n) ==
  IF n = 0 THEN ""
  ELSE IF ~QuoteMark(tag, n) THEN OpenSpan(tag, n - 1)
       ELSE IF OpenSpan(tag, n - 1) = "" THEN tag[n]
            ELSE IF OpenSpan(tag, n - 1) = tag[n] THEN ""
                 ELSE OpenSpan(tag, n - 1)

\* the commas outside every span
Cuts(tag) == {i \in 1..Len(tag) : tag[i] = "," /\ OpenSpan(tag, i) = ""}

\* the pieces of the tag from position from on, cut at Cuts and trimmed; an
\* empty piece after the last cut is left out
RECURSIVE Pieces(_, _)
Pieces(tag, from) ==
  IF \E c \in Cuts(tag) : c >= from
  THEN LET c == CHOOSE c \in Cuts(tag) : c >= from /\ \A d \in Cuts(tag) : d >= from => c <= d
       IN  <<TrimSpace(SubSeq(tag, from, c - 1))>> \o Pieces(tag, c + 1)
  ELSE IF from > Len(tag) THEN <<>>
       ELSE <<TrimSpace(SubSeq(tag, from, Len(tag)))>>

\* C18: the tag is cut at its commas outside quoted spans and nowhere else: a
\* span opened by ' or " is closed only by the same character, a quote
\* character that follows a backslash neither opens nor closes a span, a
\* comma inside a span stays in its token; the tokens are trimmed and the
\* first one is the lookup name
C18_SplitOutsideQuotes ==
  TagDone =>
    /\ out.parts = Pieces(in.tag, 1)
    /\ out.tp.EnvName = out.parts[1]

C18_Witness ==
  /\ TagDone
  /\ in.tag = <<"\\","'",",","A">>
  /\ out.parts = <<<<"\\","'">>, <<"A">>>>
(***************************************************************************)
(* SpecScalar: setEnvVarValues applied to one integer or boolean field,    *)
(* tagged A, that holds in.old before the call.                            *)
(***************************************************************************)
ScalarInit ==
  LET IntShapes == {TInt(8), TInt(16), TInt(64), TUint(8), TUint(16), TUint(64)}
      IntTexts ==
        {<<"0">>, <<"1">>, <<"-","1">>, <<"+","5">>, <<"0","0","7">>, <<"1","2","7">>, <<"1","2","8">>, <<"-","1","2","8">>, <<"-","1","2","9">>, <<"2","5","5">>,
         <<"2","5","6">>, <<"3","0","0">>, <<"3","2","7","6","7">>, <<"3","2","7","6","8">>, <<"-","3","2","7","6","9">>, <<"6","5","5","3","5">>, <<"6","5","5","3","6">>, <<"x">>, <<>>,
         <<"1",".","5">>, <<" ","1">>, <<"1","e","2">>}
      Up(c) == CHOOSE u \in {<<"T","R","U","E","F","A","L","S">>[i] : i \in 1..8} : LowerChar(u) = c
      Spellings(w) ==
        {[i \in 1..Len(w) |-> IF m[i] THEN Up(w[i]) ELSE w[i]] :
           m \in [1..Len(w) -> BOOLEAN]}
      BoolTexts ==
        Spellings(<<"t","r","u","e">>) \cup Spellings(<<"f","a","l","s","e">>) \cup Spellings(<<"t">>)
          \cup Spellings(<<"f">>)
          \cup {<<"1">>, <<"0">>, <<>>, <<"y","e","s">>, <<"n","o">>, <<"2">>, <<"0","1">>, <<"t","r","u">>, <<" ","t","r","u","e">>, <<"T","R","U","E","a","s","d","f">>,
                <<"o","n">>, <<"y">>}
  IN  /\ env = <<>>
      /\ dotenv = <<>>
      /\ cachedConfigs = <<>>
      /\ firstLoaded = <<>>
      /\ out = Idle
      /\ \/ \E t \in IntShapes, x \in IntTexts : \E old \in {Zero(t), Prior(t)} :
              in = [T |-> t, tp |-> parseTagAndTagValues(nameA), text |-> x, old |-> old]
         \/ \E x \in BoolTexts, old \in {Zero(TBool), Prior(TBool)} :
              in = [T |-> TBool, tp |-> parseTagAndTagValues(nameA), text |-> x,
                    old |-> old]

\* err := setEnvVarValues(fieldValue, tagProp, envValue)
ScalarCall ==
  /\ out.op = "none"
  /\ \E r \in {setEnvVarValues(in.old, in.T, in.tp, in.text)} :
       out' = [op |-> "setEnvVarValues", err |-> r.err, val |-> r.val]
  /\ UNCHANGED <<env, dotenv, cachedConfigs, firstLoaded, in>>

SpecScalar == ScalarInit /\ [][ScalarCall]_vars

(***************************************************************************)
(* Claims checked under SpecScalar.                                        *)
(***************************************************************************)
ScalarDone == out.op = "setEnvVarValues"

\* the call failed to convert the text, for the cause given, and left the
\* field as it was
ConversionFailed(cause) ==
  /\ out.err = Err("conversion failed", nameA, in.text, in.T.kind, cause, 0, 0)
  /\ out.val = in.old

\* the numbers a field of shape t can hold; every number written in the
\* texts of the model is in the range of the 64-bit widths
InRange(t, v) ==
  IF t.kind = "int"
  THEN t.bits >= 32 \/ (0 - Pow2(t.bits - 1) <= v /\ v < Pow2(t.bits - 1))
  ELSE 0 <= v /\ (t.bits >= 32 \/ v < Pow2(t.bits))

\* a decimal numeral with an optional sign (no sign for an unsigned field)
Numeral(t, s) ==
  /\ s # <<>>
  /\ IF t.kind = "int" /\ Head(s) \in {"+", "-"}
     THEN Tail(s) # <<>> /\ AllDigits(Tail(s))
     ELSE AllDigits(s)

NumberOf(s) ==
  IF Head(s) = "-" THEN 0 - DecVal(Tail(s))
  ELSE IF Head(s) = "+" THEN DecVal(Tail(s))
       ELSE DecVal(s)

\* C19 as stated: an integer field of width w binds a decimal numeral of a
\* number in the range of w to exactly that number, and fails with the
\* conversion error naming the variable on a numeral out of that range (300
\* for int8, 256 for uint8) or on a text that is no numeral
C19_WidthIsRangeBound ==
  (ScalarDone /\ in.T.kind \in {"int", "uint"}) =>
    IF ~Numeral(in.T, in.text) THEN ConversionFailed("syntax")
    ELSE IF ~InRange(in.T, NumberOf(in.text)) THEN ConversionFailed("range")
         ELSE out.err = NoErr /\ out.val = Val(in.T.kind, NumberOf(in.text))

\* C20 as stated: a boolean field binds true, t and 1 to true and false, f and
\* 0 to false in every upper- and lower-case spelling, and fails with the
\* conversion error naming the variable and the text on any other text
C20_BoolAnyCase ==
  (ScalarDone /\ in.T = TBool) =>
    IF ToLower(in.text) \in {<<"t","r","u","e">>, <<"t">>, <<"1">>}
    THEN out.err = NoErr /\ out.val = Val("bool", TRUE)
    ELSE IF ToLower(in.text) \in {<<"f","a","l","s","e">>, <<"f">>, <<"0">>}
         THEN out.err = NoErr /\ out.val = Val("bool", FALSE)
         ELSE ConversionFailed("syntax")

\* C20 amended: a boolean field binds exactly the literals 1, t, T, TRUE,
\* true, True to true and 0, f, F, FALSE, false, False to false; any other
\* text, the other mixed-case spellings included, fails with the conversion
\* error naming the variable and the text, and the field is left as it was
C20_BoolLiterals ==
  (ScalarDone /\ in.T = TBool) =>
    IF in.text \in {<<"1">>, <<"t">>, <<"T">>, <<"T","R","U","E">>, <<"t","r","u","e">>, <<"T","r","u","e">>}
    THEN out.err = NoErr /\ out.val = Val("bool", TRUE)
    ELSE IF in.text \in {<<"0">>, <<"f">>, <<"F">>, <<"F","A","L","S","E">>, <<"f","a","l","s","e">>, <<"F","a","l","s","e">>}
         THEN out.err = NoErr /\ out.val = Val("bool", FALSE)
         ELSE ConversionFailed("syntax")

C20_Witness ==
  /\ ScalarDone
  /\ in.T = TBool
  /\ in.text = <<"t","R","U","E">>
  /\ in.old = Val("bool", TRUE)
  /\ out.err.kind = "conversion failed"
  /\ out.err.text = <<"t","R","U","E">>
(***************************************************************************)
(* SpecField: setEnvVarValues applied to one field of any shape, tagged A, *)
(* that holds in.old before the call.                                      *)
(***************************************************************************)
FieldInit ==
  LET FieldTags ==
        {<<"A">>, <<"A",",","d","e","l","i","m","i","t","e","r","=","'","'">>, <<"A",",","d","e","l","i","m","i","t","e","r","=","'",";","'">>, <<"A",",","i","s","s","t","r","i","n","g">>}
      FieldShapes ==
        {TString, TInt(8), TInt(64), TUint(8), TFloat(32), TFloat(64), TComplex(64),
         TComplex(128), TBool, TAny, TStruct,
         TSlice(TInt(8)), TSlice(TUint(8)), TSlice(TString), TSlice(TStruct),
         TArray(2, TInt(8)), TArray(2, TUint(8)), TArray(2, TStruct),
         TMap(TString, TInt(8)), TMap(TInt(8), TString), TMap(TStruct, TString),
         TMap(TString, TStruct), TMap(TInt(8), TStruct)}
      FieldTexts ==
        {<<>>, <<"1">>, <<"x">>, <<"3","0","0">>, <<"-","1","2","9">>, <<"1",",","2">>, <<"1",",","x">>, <<"x",",","1">>, <<"1",";","2">>, <<"1",";","x">>,
         <<"a",":","1">>, <<"1",":","a">>, <<"a",":","1",",","b",":","2">>, <<"a",":","1",",","b",":","x">>, <<"a",":","1",",","b","2">>, <<"a","1">>, <<"1"," ","+"," ","2","i">>, <<"1","+","2","i">>,
         <<"1","e","3","9">>, <<"t","r","u","e">>, <<"t","R","U","E">>, <<" ","1">>}
  IN  /\ env = <<>>
      /\ dotenv = <<>>
      /\ cachedConfigs = <<>>
      /\ firstLoaded = <<>>
      /\ out = Idle
      /\ \E t \in FieldShapes, tg \in FieldTags, x \in FieldTexts :
           \E old \in {Zero(t), Prior(t)} :
             in = [T |-> t, tp |-> parseTagAndTagValues(tg), text |-> x, old |-> old]

\* err := setEnvVarValues(fieldValue, tagProp, envValue)
FieldCall ==
  /\ out.op = "none"
  /\ \E r \in {setEnvVarValues(in.old, in.T, in.tp, in.text)} :
       out' = [op |-> "setEnvVarValues", err |-> r.err, val |-> r.val]
  /\ UNCHANGED <<env, dotenv, cachedConfigs, firstLoaded, in>>

SpecField == FieldInit /\ [][FieldCall]_vars

(***************************************************************************)
(* Claims checked under SpecField.                                         *)
(***************************************************************************)
FieldDone == out.op = "setEnvVarValues"

\* the call failed naming the kind as unsupported at the level given, and
\* left the field as it was
Unsupported(level, kind) ==
  /\ out.err = Err(level, <<>>, <<>>, kind, "", 0, 0)
  /\ out.val = in.old

\* the first entry of a map text has a ':'
FirstEntryHasColon == Len(Tokens) >= 1 /\ HasColon(Entries[1])

\* C21 as stated: a field of unsupported shape fails with 'unsupported field
\* type'; a sequence of unsupported elements, when the token count is
\* acceptable (any count for a slice, the length for an array), fails with
\* 'unsupported slice/array element type'; a map with an unsupported key fails
\* with 'unsupported map key type' and one with an unsupported value with
\* 'unsupported map value type', when the entry has a ':' (and, for the value,
\* its key coerces); the field is not assigned
C21_UnsupportedAtItsLevel ==
  FieldDone =>
    /\ in.T.kind = "struct" => Unsupported("unsupported field type", "struct")
    /\ (/\ in.T.kind \in {"slice", "array"}
        /\ in.T.elem.kind = "struct"
        /\ in.T.kind = "array" => Len(Tokens) = in.T.len)
         => Unsupported("unsupported slice/array element type", "struct")
    /\ (in.T.kind = "map" /\ in.T.key.kind = "struct" /\ FirstEntryHasColon)
         => Unsupported("unsupported map key type", "struct")
    /\ (/\ in.T.kind = "map"
        /\ in.T.elem.kind = "struct"
        /\ in.T.key.kind # "struct"
        /\ FirstEntryHasColon
        /\ KeyOf(Entries[1]).ok)
         => Unsupported("unsupported map value type", "struct")

\* token i of the tag, i >= 2, names the keyword kw in any case
Names(i, kw) == i >= 2 /\ Contains(ToLower(out.parts[i]), kw)

\* C22: for every non-empty tag the parser returns a descriptor: the tag has
\* at least one token, the lookup name is the trimmed text before the first
\* cut (empty for a tag such as ","), and each property has its initial value
\* (default empty, not required, delimiter ',', no hint) unless a token after
\* the first names its keyword and, for default, has a '=' and, for
\* delimiter, has a '=' followed by a quoted literal; tokens that name no
\* keyword, a default without '=' and a delimiter without a quoted literal
\* change nothing
C22_DescriptorTotal ==
  TagDone =>
    /\ in.tag # <<>>
    /\ Len(out.parts) >= 1
    /\ out.tp.EnvName = Pieces(in.tag, 1)[1]
    /\ DOMAIN out.tp = {"EnvName", "DefaultValue", "Delimiter", "Required", "isString"}
    /\ out.tp.Required
         => \E i \in 1..Len(out.parts) : Names(i, <<"r","e","q","u","i","r","e","d">>)
    /\ out.tp.isString
         => \E i \in 1..Len(out.parts) : Names(i, <<"i","s","s","t","r","i","n","g">>)
    /\ out.tp.DefaultValue # <<>>
         => \E i \in 1..Len(out.parts) :
              Names(i, <<"d","e","f","a","u","l","t">>) /\ Contains(out.parts[i], <<"=">>)
    /\ out.tp.Delimiter # <<",">>
         => \E i \in 1..Len(out.parts) :
              /\ Names(i, <<"d","e","l","i","m","i","t","e","r">>)
              /\ Contains(out.parts[i], <<"=">>)
              /\ OuterQuoted(FlagOf(out.parts[i]))

C22_Witness ==
  /\ TagDone
  /\ in.tag = <<"A",",","d","e","l","i","m","i","t","e","r","=",";">>
  /\ out.tp = tagProperties(nameA, <<>>, <<",">>, FALSE, FALSE)

\* the field is a scalar and its text has no surrounding whitespace and does
\* not contain the delimiter; the string hint is not set
ScalarCase ==
  /\ in.T.kind \in {"string", "int", "uint", "float", "complex", "bool", "interface"}
  /\ in.text = TrimSpace(in.text)
  /\ ~Contains(in.text, in.tp.Delimiter)
  /\ ~in.tp.isString

\* the same text bound to a slice of the field's shape
AsElement == setEnvVarValues(Zero(TSlice(in.T)), TSlice(in.T), in.tp, in.text)

\* C23 as stated: a text binds to a scalar field of shape S exactly when it
\* binds to a one-element sequence of S, and the element then equals the
\* scalar (same integer range bound, same handling of whitespace inside a
\* complex literal, same boolean literals)
C23_ElementAsScalar ==
  (FieldDone /\ ScalarCase) =>
    /\ out.err = NoErr <=> AsElement.err = NoErr
    /\ out.err = NoErr => AsElement.val.val = <<out.val>>
(***************************************************************************)
(* SpecConc: LoadEnv calls that run concurrently, one per caller, each on  *)
(* a record of its own.  A step of a call is one access to the cache or to *)
(* the environment: the cache lookup, the file pre-load, the binding of    *)
(* one field, the store.  in[c] is the call of caller c and how far it has *)
(* got (pc), out[c] what it returned; the environment changes in between   *)
(* by Setenv.                                                              *)
(***************************************************************************)
NumCallers == 2

Callers == 1..NumCallers

ConcInit ==
  /\ env = (nameA :> Absent) @@ (nameB :> Absent)
  /\ dotenv = (".env" :> [exists |-> TRUE, vars |-> (nameB :> <<"7">>)])
                @@ ("x.env" :> [exists |-> FALSE, vars |-> <<>>])
  /\ cachedConfigs = [n \in {"Config1", "Config2"} |-> NoEntry]
  /\ firstLoaded = <<>>
  /\ in = [c \in Callers |->
             [pc |-> "call", T |-> Config1, isNil |-> FALSE, options |-> <<>>,
              rec |-> <<>>, handed |-> <<>>, err |-> NoErr, i |-> 1, parsed |-> FALSE]]
  /\ out = [c \in Callers |-> [op |-> "none", err |-> NoErr]]

\* lines 19-30 of LoadEnv: the nil check and the cache lookup
LoadEnvBegin(c) ==
  /\ in[c].pc = "call"
  /\ \E T \in {Config1, Config2}, isNil \in BOOLEAN,
        options \in {<<>>, <<WithEnvFiles(<<"x.env">>)>>} :
       \E call \in {[in[c] EXCEPT !.T = T, !.isNil = isNil, !.options = options,
                                  !.rec = Pointer(T, isNil).rec]} :
         IF isNil
         THEN /\ in' = [in EXCEPT ![c] = [call EXCEPT !.pc = "done", !.err = errNilConfig]]
              /\ out' = [out EXCEPT ![c] = [op |-> "LoadEnv", err |-> errNilConfig]]
         ELSE IF cachedConfigs[T.name].ok
              THEN /\ in' = [in EXCEPT ![c] = [call EXCEPT !.pc = "done",
                                                           !.rec = cachedConfigs[T.name].rec]]
                   /\ out' = [out EXCEPT ![c] = [op |-> "LoadEnv", err |-> NoErr]]
              ELSE /\ in' = [in EXCEPT ![c] = [call EXCEPT !.pc = "load"]]
                   /\ out' = out
  /\ UNCHANGED <<env, dotenv, cachedConfigs, firstLoaded>>

\* lines 36-45 of LoadEnv: the settings and the file pre-load
LoadEnvPreload(c) ==
  /\ in[c].pc = "load"
  /\ \E pre \in {loadEnvFile(loadSettings(in[c].options).AutoLoadEnv,
                            loadSettings(in[c].options).EnvFiles, dotenv, env)} :
       /\ env' = pre.env
       /\ IF pre.ok
          THEN /\ in' = [in EXCEPT ![c].pc = "parse", ![c].parsed = TRUE]
               /\ out' = out
          ELSE /\ in' = [in EXCEPT ![c].pc = "done", ![c].err = errInvalidEnvPathArgs]
               /\ out' = [out EXCEPT ![c] = [op |-> "LoadEnv", err |-> errInvalidEnvPathArgs]]
  /\ UNCHANGED <<dotenv, cachedConfigs, firstLoaded>>

\* one turn of the loop of parseEnvVar (line 48 of LoadEnv): field in[c].i of
\* the caller's record is bound from the environment as it is now
LoadEnvParseField(c) ==
  /\ in[c].pc = "parse"
  /\ \E r \in {parseFields(<<in[c].T.fields[in[c].i]>>, 1, <<in[c].rec[in[c].i]>>,
                           env, <<>>)} :
       in' = [in EXCEPT ![c].rec[in[c].i] = r.rec[1],
                        ![c].handed = in[c].handed \o r.handed,
                        ![c].err = r.err,
                        ![c].i = in[c].i + 1,
                        ![c].pc = IF r.err # NoErr \/ in[c].i = Len(in[c].T.fields)
                                  THEN "store" ELSE "parse"]
  /\ UNCHANGED <<env, dotenv, cachedConfigs, firstLoaded, out>>

\* lines 49-59 of LoadEnv: the store when the bind succeeded, and the return
LoadEnvStore(c) ==
  /\ in[c].pc = "store"
  /\ \E post \in {storeConfig(in[c], cachedConfigs, [env |-> env, calls |-> 0],
                              [err |-> in[c].err, rec |-> in[c].rec,
                               handed |-> in[c].handed])} :
       /\ cachedConfigs' = post.cache
       /\ out' = [out EXCEPT ![c] = [op |-> "LoadEnv", err |-> post.err]]
  /\ in' = [in EXCEPT ![c].pc = "done"]
  /\ UNCHANGED <<env, dotenv, firstLoaded>>

SpecConc ==
  ConcInit /\ [][\/ \E c \in Callers : \/ LoadEnvBegin(c)
                                       \/ LoadEnvPreload(c)
                                       \/ LoadEnvParseField(c)
                                       \/ LoadEnvStore(c)
                 \/ Setenv]_vars

(***************************************************************************)
(* Claims checked under SpecConc.                                          *)
(***************************************************************************)
\* caller c has called parseEnvVar for the type named n
Parsed(c, n) == in[c].parsed /\ in[c].T.name = n

\* caller c has stored its record in the cache for the type named n
Stored(c, n) == Parsed(c, n) /\ in[c].pc = "done" /\ in[c].err = NoErr

\* C24 as stated: of the calls for one record type that run concurrently
\* against an empty cache, exactly one performs the parse and stores its
\* result: no second caller parses, and no second store replaces the entry
C24_OneWinner ==
  \A n \in DOMAIN cachedConfigs :
    /\ Cardinality({c \in Callers : Parsed(c, n)}) <= 1
    /\ Cardinality({c \in Callers : Stored(c, n)}) <= 1

\* the record of the call is the outcome of one complete pass: every field
\* has been handed a text, and holds the coercion of that text
CompletePass(call) ==
  /\ Len(call.handed) = Len(call.T.fields)
  /\ \A i \in 1..Len(call.T.fields) :
       LET f == call.T.fields[i]
           r == setEnvVarValues(Zero(f.type), f.type, parseTagAndTagValues(f.tag),
                                call.handed[i])
       IN  r.err = NoErr /\ call.rec[i] = r.val

\* C25: under every interleaving, a cache entry is only ever written by the
\* store of a call that returns without error, with the record of that call,
\* which is the outcome of one complete pass of its own; so every entry in
\* every reachable state is the record of one successful pass for its type,
\* never that of a call that returned an error, a partially bound record or
\* a mix of two passes
C25_EntryFromOnePass ==
  /\ [][\A n \in DOMAIN cachedConfigs :
          cachedConfigs'[n] # cachedConfigs[n] =>
            \E c \in Callers :
              /\ in[c].pc = "store" /\ in'[c].pc = "done"
              /\ in[c].T.name = n
              /\ out'[c].err = NoErr
              /\ cachedConfigs'[n] = Entry(in[c].rec)
              /\ CompletePass(in[c])]_vars
  /\ [](\A n \in DOMAIN cachedConfigs :
          cachedConfigs[n].ok =>
            \E c \in Callers :
              /\ Stored(c, n)
              /\ out[c].err = NoErr
              /\ cachedConfigs[n].rec = in[c].rec
              /\ CompletePass(in[c]))

C25_Witness ==
  \E c, d \in Callers :
    /\ c # d
    /\ Stored(c, "Config1")
    /\ cachedConfigs["Config1"] = Entry(in[c].rec)
    /\ Parsed(d, "Config1")
    /\ out[d].err.kind = "conversion failed"
    /\ in[d].rec[1] # Zero(TString)
    /\ in[d].rec # in[c].rec

\* C26 as stated: a field whose coercion fails holds, after the call, the
\* value it held before it; no element coerced before the failing token is
\* left in a fixed-length sequence, a variable-length sequence or a mapping
C26_FailedFieldUnchanged ==
  (FieldDone /\ out.err # NoErr) => out.val = in.old

\* C27 as stated: the delimiter of every parsed descriptor is a non-empty
\* text, so that the empty text split by it gives at least one token
C27_DelimiterNotEmpty ==
  TagDone =>
    /\ out.tp.Delimiter # <<>>
    /\ Len(Split(<<>>, out.tp.Delimiter)) >= 1

\* C28 as stated: in a tag A,T with one property token, a default token
\* leaves required, the delimiter and the string hint at their initial values
\* whatever its value is, a delimiter token leaves required, the default and
\* the hint there, and a required token leaves the default there
C28_OnlyItsOwnProperty ==
  TagDone =>
    /\ in.kind = "default" =>
         /\ ~out.tp.Required
         /\ out.tp.Delimiter = <<",">>
         /\ ~out.tp.isString
    /\ in.kind = "delimiter" =>
         /\ ~out.tp.Required
         /\ out.tp.DefaultValue = <<>>
         /\ ~out.tp.isString
    /\ in.kind = "required" => out.tp.DefaultValue = <<>>

\* a shape the coercer has a case for, its elements, keys and values included
Supported(t) ==
  /\ t.kind # "struct"
  /\ t.kind \in {"slice", "array"} => t.elem.kind # "struct"
  /\ t.kind = "map" => t.key.kind # "struct" /\ t.elem.kind # "struct"

\* C29 as stated: binding a field of a supported shape returns, with success
\* or with an error value, for every tag and every text (the empty text, an
\* empty delimiter and a set string hint included); it never aborts on an
\* index out of range or on an invalid reflective assignment
C29_BindNeverAborts ==
  (FieldDone /\ Supported(in.T)) => out.err.kind # "panic"
(***************************************************************************)
(* SpecOnce: GetEnvVar calls, one after the other, between changes of the  *)
(* environment.  cachedConfigs is the package variable cachedConfig, nil   *)
(* or the record stored with the name of its type, and firstLoaded the     *)
(* package variable once: TRUE when its function has been run.             *)
(***************************************************************************)
\* lines 115-120 of GetEnvVar: r is what the function given to once.Do left
\* (the call's err and record), cached the variable cachedConfig after it
assertCached(envConfig, cached, r) ==
  [err    |-> IF r.err # NoErr THEN r.err
              ELSE IF cached.isNil \/ cached.T # envConfig.T.name
                   THEN Panic("interface conversion")
                   ELSE NoErr,
   rec    |-> IF r.err = NoErr /\ ~cached.isNil /\ cached.T = envConfig.T.name
              THEN cached.rec
              ELSE r.rec,
   once   |-> TRUE,
   cached |-> cached,
   env    |-> r.env]

\* lines 110-112 of GetEnvVar: r is what the function given to once.Do left
onceDo(envConfig, cached, r) ==
  assertCached(envConfig,
               IF r.err = NoErr
               THEN [isNil |-> FALSE, T |-> envConfig.T.name, rec |-> r.rec]
               ELSE cached,
               r)

\* GetEnvVar(envConfig, options...) with the variables once and cachedConfig,
\* the files fs and the environment e; the function given to once.Do is the
\* one of LoadEnv but for where it stores
GetEnvVar(envConfig, options, once, cached, fs, e) ==
  IF envConfig.isNil
  THEN [err |-> errNilConfig, rec |-> envConfig.rec, once |-> once, cached |-> cached,
        env |-> e]
  ELSE IF once
       THEN assertCached(envConfig, cached, Loaded(NoErr, envConfig.rec, <<>>, e, 0, <<>>))
       ELSE onceDo(envConfig, cached,
                   loadOnce(envConfig, loadSettings(options),
                            (envConfig.T.name :> NoEntry), fs, e))

OnceInit ==
  /\ env = (nameA :> Absent) @@ (nameB :> Absent)
  /\ dotenv \in DotenvSets
  /\ cachedConfigs = [isNil |-> TRUE, T |-> "", rec |-> <<>>]
  /\ firstLoaded = FALSE
  /\ in = [T |-> Config1, isNil |-> FALSE, rec |-> <<>>, options |-> <<>>]
  /\ out = [op |-> "none", err |-> NoErr, rec |-> <<>>]

\* err := GetEnvVar(&config, options...), in a process that has not aborted
GetEnvVarCall ==
  /\ out.err.kind # "panic"
  /\ \E T \in {Config1, Config2}, isNil \in BOOLEAN,
        options \in {<<>>, <<WithEnvFiles(<<"x.env">>)>>} :
       \E r \in {GetEnvVar(Pointer(T, isNil), options, firstLoaded, cachedConfigs,
                           dotenv, env)} :
         /\ in' = [T |-> T, isNil |-> isNil, rec |-> Pointer(T, isNil).rec,
                   options |-> options]
         /\ out' = [op |-> "GetEnvVar", err |-> r.err, rec |-> r.rec]
         /\ env' = r.env
         /\ cachedConfigs' = r.cached
         /\ firstLoaded' = r.once
  /\ UNCHANGED dotenv

SpecOnce == OnceInit /\ [][GetEnvVarCall \/ Setenv]_vars

(***************************************************************************)
(* Claims checked under SpecOnce.                                          *)
(***************************************************************************)
\* the record is one of the type T with every field bound
FullyParsed(T, rec) ==
  /\ Len(rec) = Len(T.fields)
  /\ \A i \in 1..Len(T.fields) :
       /\ rec[i].kind = T.fields[i].type.kind
       /\ rec[i] \in {Zero(T.fields[i].type)}
            \cup {setEnvVarValues(Zero(T.fields[i].type), T.fields[i].type,
                                  parseTagAndTagValues(T.fields[i].tag), x).val :
                    x \in {<<>>, <<"h">>, <<"1">>, <<"2">>, <<"7">>}}

\* C30 as stated: every GetEnvVar call on a non-nil pointer returns, with an
\* error value or with the caller's record fully parsed as its own type,
\* also after an earlier call returned an error and when the type differs
\* from that of the first call; it never aborts
C30_GetEnvVarReturns ==
  (out.op = "GetEnvVar" /\ ~in.isNil) =>
    /\ out.err.kind # "panic"
    /\ out.err = NoErr => FullyParsed(in.T, out.rec)

====
